---- MODULE Spec2Model ----
(***************************************************************************)
(* Model of the registry class Publisher of src/publish-subscribe-library  *)
(* (the second, event-registering Publisher, lines 482-869), together with *)
(* PublisherEvent and ParameterDefinition.                                 *)
(*                                                                         *)
(* JavaScript arrays are objects with identity.  publish() keeps a         *)
(* reference to the array stored in subscriptions[eventName] while it      *)
(* calls the handlers.  The only code that changes an array is subscribe   *)
(* (push) and unsubscribe (splice), both through subscriptions[eventName], *)
(* so a reference is either "live" (it is the array subscriptions holds    *)
(* for that name now) or detached, and a detached array never changes      *)
(* again.  A reference is therefore modelled as [live, arr]: a live        *)
(* reference reads subscriptions[eventName], a detached one carries the    *)
(* contents the array had when it was detached.                            *)
(*                                                                         *)
(* The handlers field of a PublisherEvent is written by getEvent only, and *)
(* the code reads it only from the object getEvent has just returned.  It  *)
(* can be read later only by a caller that got the event object itself,    *)
(* from getEvent or getAllEvents, and kept it; the variable handlers       *)
(* follows the field for those events, by name, as long as the event is    *)
(* stored in registeredEvents.                                             *)
(***************************************************************************)
EXTENDS Integers, Sequences, FiniteSets, TLC

(***************************************************************************)
(* Bounds of the model.                                                    *)
(***************************************************************************)
\* most subscriptions, over all events, a subscribe call is explored with
MaxHandlers == 3
\* most calls that change the registry made by the handlers of one publish call
MaxCalls == 1
\* longest parameter list an event is declared with, where declarations are explored
MaxParameters == 3
\* longest argument list checked against a declaration
MaxArguments == 2

(***************************************************************************)
(* Inputs.                                                                 *)
(***************************************************************************)
\* event names: keys are compared with ===, so "a" and "A" differ
Names == {"a", "A"}
\* the empty string is the falsy event name
NoName == ""
NameInputs == Names \cup {NoName}

\* handler functions, by identity; NoHandler is an omitted (undefined) handler
Handlers == {"h1", "h2"}
NoHandler == "undefined"
HandlerInputs == Handlers \cup {NoHandler}

\* Function.length of each handler: its declared parameter count
FunctionLength(h) == IF h = "h1" THEN 0 ELSE 1

\* JavaScript values, by what typeof gives for them
Undefined == [type |-> "undefined", val |-> "undefined"]
NumberValue == [type |-> "number", val |-> "3"]
StringValue == [type |-> "string", val |-> "s"]
EmptyText == [type |-> "string", val |-> ""]
typeof(v) == v.type

\* argument lists given to publish
ArgLists == {<< >>, <<NumberValue>>}

\* args[i], i counted from 0: undefined beyond the end of the list
ArgAt(args, i) == IF i + 1 <= Len(args) THEN args[i + 1] ELSE Undefined

\* raw parameter descriptors (IParameterDefinition); a missing optional is
\* falsy like false, a missing description is falsy like ""
Descriptor(n, t, o) == [name |-> n, type |-> t, optional |-> o, description |-> ""]
\* the lists given to register: none, a required and an optional parameter,
\* and two malformed lists (a name twice, a required after an optional one)
ParameterLists ==
    { << >>,
      <<Descriptor("x", "number", FALSE), Descriptor("y", "string", TRUE)>>,
      <<Descriptor("x", "number", FALSE), Descriptor("x", "string", TRUE)>>,
      <<Descriptor("y", "string", TRUE), Descriptor("x", "number", FALSE)>> }

\* the description of an event is a JavaScript value: text for the calls of
\* the registry model
Descriptions == {StringValue}
Registrants == {"this"}

(***************************************************************************)
(* Errors.  The code throws Error objects that differ in their message;    *)
(* the model names them by kind.                                           *)
(***************************************************************************)
NoError == "none"

VARIABLES
    registeredEvents,                 \* Publisher.registeredEvents
    subscriptions,                    \* Publisher.subscriptions
    checkEventAndArgumentsOnPublish,  \* Publisher.checkEventAndArgumentsOnPublish
    handlers,                         \* PublisherEvent.handlers of the events handed out
    stack,                            \* the publish calls in progress, innermost last
    result                            \* the outcome of the call that ended last

vars == <<registeredEvents, subscriptions, checkEventAndArgumentsOnPublish, handlers,
          stack, result>>

(***************************************************************************)
(* ParameterDefinition                                                     *)
(***************************************************************************)
validTypes == <<"boolean", "number", "string", "symbol", "function", "object">>

\* the arguments of the constructor are JavaScript values of any type; Text
\* and Boolean give the value that is a text or a boolean
Text(s) == [type |-> "string", val |-> s]
Boolean(b) == [type |-> "boolean", val |-> IF b THEN "true" ELSE "false"]
Zero == [type |-> "number", val |-> "0"]

\* what if (v) takes for true: every value but undefined, "", false and 0
\* (of the values of the model)
Truthy(v) == v \notin {Undefined, EmptyText, Boolean(FALSE), Zero}

\* type === validType for one of the valid types
validType(type) == \E k \in 1..Len(validTypes) : type = Text(validTypes[k])

\* the checks of the constructor, in the order the code makes them:
\* parameter is the object under construction, whose optional the
\* constructor has set to true or false
performValidParameterDefinitionCheck(parameter) ==
    IF typeof(parameter.name) # "string" \/ parameter.name = EmptyText
    THEN "InvalidSignature"
    ELSE IF parameter.optional \notin BOOLEAN THEN "InvalidSignature"
    ELSE IF ~validType(parameter.type) THEN "InvalidSignature"
    ELSE IF typeof(parameter.description) # "string" THEN "InvalidSignature"
    ELSE NoError

\* a variant that keeps the description given: this.description = description
ParameterDefinitionKeepingDescription(name, type, optional, description) ==
    LET this == [name |-> name, type |-> type,
                 optional |-> IF Truthy(optional) THEN TRUE ELSE FALSE,
                 description |-> description]
        err == performValidParameterDefinitionCheck(this)
    IN  [err |-> err, this |-> this,
         value |-> IF err # NoError THEN this
                   ELSE [name |-> this.name.val, type |-> this.type.val,
                         optional |-> this.optional,
                         description |-> this.description.val]]

\* new ParameterDefinition(name, type, optional, description): the error the
\* construction throws, if any, the object under construction (this) and
\* the object constructed (value), where the fields of an object that
\* passed the checks are written as the text (name, type, description) and
\* the boolean (optional) they are
ParameterDefinition(name, type, optional, description) ==
    LET this == [name |-> name, type |-> type,
                 optional |-> IF Truthy(optional) THEN TRUE ELSE FALSE,
                 description |-> IF Truthy(description) THEN description ELSE EmptyText]
        err == performValidParameterDefinitionCheck(this)
    IN  [err |-> err, this |-> this,
         value |-> IF err # NoError THEN this
                   ELSE [name |-> this.name.val, type |-> this.type.val,
                         optional |-> this.optional,
                         description |-> this.description.val]]

(***************************************************************************)
(* PublisherEvent                                                          *)
(***************************************************************************)
\* every element is turned into a ParameterDefinition, the first malformed
\* one throws; the descriptors of the lists given to register hold a text for
\* name, type and description and a boolean for optional
convertToParameterDefinitionArray(parameters) ==
    LET made == [k \in 1..Len(parameters) |->
                    ParameterDefinition(Text(parameters[k].name), Text(parameters[k].type),
                                        Boolean(parameters[k].optional),
                                        Text(parameters[k].description))]
        bad == {k \in 1..Len(parameters) : made[k].err # NoError}
    IN  IF bad # {}
        THEN [err |-> "InvalidSignature", value |-> << >>]
        ELSE [err |-> NoError, value |-> [k \in 1..Len(parameters) |-> made[k].value]]

\* FALSE when a required parameter follows an optional one
validParameterOrder(parameters) ==
    ~ \E k \in 1..Len(parameters) :
        /\ ~parameters[k].optional
        /\ \E j \in 1..k : parameters[j].optional

\* property names every object inherits from Object.prototype; their values
\* there are functions, which are truthy
ObjectPrototype == {"constructor", "toString", "valueOf", "hasOwnProperty"}

\* parametersAlreadyFound[name] is truthy: the loop has set it for an earlier
\* parameter, or the object {} inherits a property of that name
AlreadyFound(parameters, k) ==
    \/ \E j \in 1..(k - 1) : parameters[j].name = parameters[k].name
    \/ parameters[k].name \in ObjectPrototype

\* the position (from 0) of the first parameter whose name is found in
\* parametersAlreadyFound, -1 when there is none
checkForDuplicateParameters(parameters) ==
    LET dup == {k \in 1..Len(parameters) : AlreadyFound(parameters, k)}
    IN  IF dup = {} THEN -1
        ELSE (CHOOSE k \in dup : \A j \in dup : k <= j) - 1

\* the checks on a new event, in the order the code makes them: the name,
\* duplicate parameters, the parameter order, the description
performValidPublisherEventCheck(event) ==
    IF event.name = "" THEN "InvalidEvent"
    ELSE IF checkForDuplicateParameters(event.parameters) > -1 THEN "DuplicateParameter"
    ELSE IF ~validParameterOrder(event.parameters) THEN "InvalidParameterOrder"
    ELSE IF typeof(event.description) # "string" THEN "InvalidEvent"
    ELSE NoError

\* a reference to a new empty array, which nothing else holds
NewArray == [live |-> FALSE, arr |-> << >>]

\* the values that || replaces: undefined and the empty text
Falsy(v) == v = Undefined \/ v = EmptyText

\* new PublisherEvent(eventName, parameters, description, registrant)
PublisherEvent(eventName, parameters, description, registrant) ==
    LET converted == convertToParameterDefinitionArray(parameters)
        this == [name |-> eventName, parameters |-> converted.value,
                 description |-> IF Falsy(description) THEN EmptyText ELSE description,
                 registrant |-> registrant]
    IN  IF converted.err # NoError
        THEN [err |-> converted.err, value |-> this]
        ELSE [err |-> performValidPublisherEventCheck(this), value |-> this]

\* a variant that goes through the parameters from the last to the first
LastMismatchPosition(parameters, args) ==
    LET bad == {k \in 1..Len(parameters) :
                   /\ typeof(ArgAt(args, k - 1)) # parameters[k].type
                   /\ \/ ~parameters[k].optional
                      \/ typeof(ArgAt(args, k - 1)) # "undefined"}
    IN  IF bad = {} THEN -1
        ELSE (CHOOSE k \in bad : \A j \in bad : k >= j) - 1

\* the position (from 0) of the first declared parameter that args does not
\* satisfy, -1 when there is none: a required parameter needs an argument of
\* its type, an optional one an argument of its type or undefined
MismatchPosition(parameters, args) ==
    LET bad == {k \in 1..Len(parameters) :
                   /\ typeof(ArgAt(args, k - 1)) # parameters[k].type
                   /\ \/ ~parameters[k].optional
                      \/ typeof(ArgAt(args, k - 1)) # "undefined"}
    IN  IF bad = {} THEN -1
        ELSE (CHOOSE k \in bad : \A j \in bad : k <= j) - 1

\* a variant that takes every parameter for optional: undefined always passes
checkArgumentsAllOptional(event, args) ==
    IF \E k \in 1..Len(event.parameters) :
           /\ typeof(ArgAt(args, k - 1)) # event.parameters[k].type
           /\ typeof(ArgAt(args, k - 1)) # "undefined"
    THEN "ArgumentMismatch" ELSE NoError

\* a variant that takes every parameter for required: undefined never passes
checkArgumentsAllRequired(event, args) ==
    IF \E k \in 1..Len(event.parameters) :
           typeof(ArgAt(args, k - 1)) # event.parameters[k].type
    THEN "ArgumentMismatch" ELSE NoError

\* event.checkHandlersArgumentsMatchParametersDefined(...args): the error it
\* throws, if any
checkHandlersArgumentsMatchParametersDefined(event, args) ==
    IF MismatchPosition(event.parameters, args) > -1 THEN "ArgumentMismatch" ELSE NoError

(***************************************************************************)
(* Arrays and objects                                                      *)
(***************************************************************************)
\* the object {}: no own property
EmptyObject == [n \in {} |-> << >>]

\* "__proto__" is no property of the object itself: object["__proto__"] is
\* the accessor of Object.prototype that reads and sets the prototype of
\* the object.  An object is written as the function from the names of its
\* own properties to their values, with the prototype an assignment to
\* object["__proto__"] has given it, if any, under the name "__proto__".
Proto == "__proto__"

hasOwnProperty(object, key) == key \in DOMAIN object /\ key # Proto

\* object.hasOwnProperty is the method every object inherits, unless the
\* object has a property of its own under the name "hasOwnProperty": then it
\* is the value stored there, an array for subscriptions, and the call
\* object.hasOwnProperty(key) throws a TypeError
MethodShadowed(object) == hasOwnProperty(object, "hasOwnProperty")

\* object[key] = value
SetProperty(object, key, value) ==
    [n \in DOMAIN object \cup {key} |-> IF n = key THEN value ELSE object[n]]

\* a variant that empties the property instead: object[key] = []
EmptyProperty(object, key) == SetProperty(object, key, << >>)

\* delete object[key]: removes a property of the object itself
DeleteProperty(object, key) ==
    IF key = Proto THEN object
    ELSE [n \in DOMAIN object \ {key} |-> object[n]]

\* a variant that finds the last position: array.lastIndexOf(handler)
lastIndexOf(array, handler) ==
    LET at == {k \in 1..Len(array) : array[k] = handler}
    IN  IF at = {} THEN -1
        ELSE (CHOOSE k \in at : \A j \in at : k >= j) - 1

\* array.indexOf(handler): the first position (from 0) holding handler, or -1
indexOf(array, handler) ==
    LET at == {k \in 1..Len(array) : array[k] = handler}
    IN  IF at = {} THEN -1
        ELSE (CHOOSE k \in at : \A j \in at : k <= j) - 1

\* a variant without the delete count: array.splice(index) removes the rest
spliceToEnd(array, index) == SubSeq(array, 1, index)

\* array.splice(index, 1): the array without the element at index (from 0)
splice(array, index) ==
    SubSeq(array, 1, index) \o SubSeq(array, index + 2, Len(array))

\* a variant that adds at the front: array.unshift(handler)
unshift(array, handler) == <<handler>> \o array

\* array.push(handler)
push(array, handler) == Append(array, handler)

\* the array a reference held for event eventName denotes
Deref(ref, eventName, subs) ==
    IF ref.live THEN subs[eventName] ELSE ref.arr

\* what object[key] finds in Object.prototype when object is a plain {} with
\* no such property of its own: a function, which is truthy and has no
\* element [i]
Inherited(key) == [live |-> FALSE, arr |-> << >>, inherited |-> key]

IsInherited(ref) == "inherited" \in DOMAIN ref

\* the properties an object inherits when an array is its prototype that
\* the model has a name for: the length of the array, a number (not 0, since
\* subscribe pushes a handler onto the array it makes)
ArrayProperties == {"length"}

\* this.subscriptions[eventName] || []: the array the object itself holds
\* for the name; for "__proto__" the prototype, an array subscribe has set
\* or else Object.prototype; for another name the prototype chain has,
\* the value found there; else a new array
SubscriptionsOrNew(subs, eventName) ==
    IF hasOwnProperty(subs, eventName) THEN [live |-> TRUE, arr |-> << >>]
    ELSE IF eventName = Proto
    THEN IF Proto \in DOMAIN subs THEN [live |-> TRUE, arr |-> << >>]
         ELSE Inherited(Proto)
    ELSE IF eventName \in ArrayProperties /\ Proto \in DOMAIN subs
    THEN Inherited(eventName)
    ELSE IF eventName \in ObjectPrototype THEN Inherited(eventName)
    ELSE NewArray

\* what a reference becomes when arrays leave subscriptions: detached maps
\* each name whose array was removed to the contents the array keeps
Detach(ref, eventName, detached) ==
    IF ref.live /\ eventName \in DOMAIN detached
    THEN [live |-> FALSE, arr |-> detached[eventName]]
    ELSE ref

(***************************************************************************)
(* Publisher: the queries                                                  *)
(***************************************************************************)
\* a variant whose loop starts at the second event
eventIndexFromOne(events, eventName) ==
    LET at == {k \in 2..Len(events) : events[k].name = eventName}
    IN  IF at = {} THEN -1
        ELSE (CHOOSE k \in at : \A j \in at : k <= j) - 1

\* the position (from 0) of the event in registeredEvents, or -1
eventIndex(events, eventName) ==
    LET at == {k \in 1..Len(events) : events[k].name = eventName}
    IN  IF at = {} THEN -1
        ELSE (CHOOSE k \in at : \A j \in at : k <= j) - 1

isRegistered(events, eventName) == eventIndex(events, eventName) > -1

\* getEvent(eventName): the error it throws, if any, and the event it
\* returns, whose handlers are the array subscriptions holds now, or a new
\* empty array
getEvent(events, subs, eventName) ==
    LET index == eventIndex(events, eventName)
        none == [handlers |-> NewArray]
    IN  IF eventName = NoName
        THEN [err |-> "MissingEventName", event |-> none]
        ELSE IF index > -1
        THEN [err |-> NoError,
              event |-> [name |-> events[index + 1].name,
                         parameters |-> events[index + 1].parameters,
                         description |-> events[index + 1].description,
                         registrant |-> events[index + 1].registrant,
                         handlers |-> SubscriptionsOrNew(subs, eventName)]]
        ELSE [err |-> "NotRegistered", event |-> none]

\* the handlers in the array subscriptions[eventName] now, in order
\* (without an array: the empty sequence)
HandlersOf(subs, eventName) ==
    IF eventName \in DOMAIN subs THEN subs[eventName] ELSE << >>

\* the number of subscriptions held, over all events
SubscriptionCount(subs) ==
    LET RECURSIVE Sum(_)
        Sum(S) == IF S = {} THEN 0
                  ELSE LET n == CHOOSE n \in S : TRUE
                       IN  Len(subs[n]) + Sum(S \ {n})
    IN  Sum(DOMAIN subs)

(***************************************************************************)
(* Publisher: what each call does to registeredEvents and subscriptions.   *)
(* Each operator gives the error thrown (NoError: none), the value         *)
(* returned, the two fields after the call, and the arrays the call        *)
(* removed from subscriptions.                                             *)
(***************************************************************************)
Outcome(err, ret, events, subs, detached) ==
    [err |-> err, ret |-> ret, events |-> events, subs |-> subs, detached |-> detached]

Thrown(err, events, subs) == Outcome(err, "none", events, subs, EmptyObject)

\* a variant that stores the array it made:
\* this.subscriptions[eventName] = this.subscriptions[eventName] || []
getEventStoringArray(events, subs, eventName) ==
    LET got == getEvent(events, subs, eventName)
    IN  IF got.err # NoError THEN Thrown(got.err, events, subs)
        ELSE Outcome(NoError, "value", events,
                     IF hasOwnProperty(subs, eventName) THEN subs
                     ELSE SetProperty(subs, eventName, << >>),
                     EmptyObject)

\* getEvent(eventName) as a call: it throws or returns, and writes nothing
\* but the handlers field of the event it returns
getEventCall(events, subs, eventName) ==
    LET got == getEvent(events, subs, eventName)
    IN  IF got.err # NoError THEN Thrown(got.err, events, subs)
        ELSE Outcome(NoError, "value", events, subs, EmptyObject)

\* getAllEvents(): getEvent(event.name) for every event stored, in order
RECURSIVE getEventsFrom(_, _, _)
getEventsFrom(events, subs, k) ==
    IF k > Len(events) THEN Outcome(NoError, "value", events, subs, EmptyObject)
    ELSE LET out == getEventCall(events, subs, events[k].name)
         IN  IF out.err # NoError THEN out
             ELSE getEventsFrom(out.events, out.subs, k + 1)

getAllEvents(events, subs) == getEventsFrom(events, subs, 1)

\* what a caller finds in the handlers field: the handlers the array holds,
\* in order, or the value the prototype chain has, which is no array of
\* handlers (written here as the pair of the object that has it and its name)
HandlersRead(ref, eventName, subs) ==
    IF IsInherited(ref)
    THEN <<IF ref.inherited \in ArrayProperties THEN "subscriptions.__proto__"
           ELSE "Object.prototype",
           ref.inherited>>
    ELSE Deref(ref, eventName, subs)

\* the event getEvent returns, with what its handlers field holds
EventRead(events, subs, eventName) ==
    LET event == getEvent(events, subs, eventName).event
    IN  [event EXCEPT !.handlers = HandlersRead(event.handlers, eventName, subs)]

\* what an accessor returns, as a sequence: the events for getEvent and
\* getAllEvents, the field of the event getEvent returns for the others
\* (one value, or the handlers or parameters in order)
Returned(op, events, subs, eventName) ==
    LET event == EventRead(events, subs, eventName)
    IN  CASE op = "getEvent" -> <<event>>
          [] op = "getAllEvents" ->
                 [k \in 1..Len(events) |-> EventRead(events, subs, events[k].name)]
          [] op = "getEventDescription" -> <<event.description>>
          [] op = "getEventHandlers" -> event.handlers
          [] op = "getEventParameters" -> event.parameters
          [] op = "getEventRegistrant" -> <<event.registrant>>
          [] OTHER -> << >>

\* the names of the events stored
RegisteredNames(events) == {events[k].name : k \in 1..Len(events)}

\* event.handlers = this.subscriptions[eventName] || [], for the events
\* getEvent is called for (names), of those whose field is followed
SetHandlers(field, subs, names) ==
    [n \in DOMAIN field |-> IF n \in names THEN SubscriptionsOrNew(subs, n) ELSE field[n]]

\* the same, where getEvent's caller hands the events on to its own caller
\* (getEvent itself and getAllEvents): their fields are followed from now on
HandOut(field, subs, names) ==
    [n \in DOMAIN field \cup names |->
        IF n \in names THEN SubscriptionsOrNew(subs, n) ELSE field[n]]

\* the fields followed after a call: an event the call removed is followed
\* no more, and a field that held an array the call removed from
\* subscriptions still holds that array
HandlersAfter(field, out) ==
    [n \in DOMAIN field \cap RegisteredNames(out.events) |->
        Detach(field[n], n, out.detached)]

\* a variant that builds the new event before it looks for the name
registerBuildingFirst(events, subs, eventName, parameters, description, registrant) ==
    LET newEvent == PublisherEvent(eventName, parameters, description, registrant)
    IN  IF eventName = NoName THEN Thrown("MissingEventName", events, subs)
        ELSE IF newEvent.err # NoError THEN Thrown(newEvent.err, events, subs)
        ELSE IF isRegistered(events, eventName) THEN Thrown("AlreadyRegistered", events, subs)
        ELSE Outcome(NoError, "void", Append(events, newEvent.value), subs, EmptyObject)

register(events, subs, eventName, parameters, description, registrant) ==
    LET newEvent == PublisherEvent(eventName, parameters, description, registrant)
    IN  IF eventName = NoName THEN Thrown("MissingEventName", events, subs)
        ELSE IF isRegistered(events, eventName) THEN Thrown("AlreadyRegistered", events, subs)
        ELSE IF newEvent.err # NoError THEN Thrown(newEvent.err, events, subs)
        ELSE Outcome(NoError, "void", Append(events, newEvent.value), subs, EmptyObject)

\* a variant that, without a handler, removes the event as well
unsubscribeAndDeregister(events, subs, eventName, handler) ==
    IF eventName = NoName THEN Thrown("MissingEventName", events, subs)
    ELSE IF ~isRegistered(events, eventName) THEN Thrown("NotRegistered", events, subs)
    ELSE IF ~hasOwnProperty(subs, eventName)
    THEN Outcome(NoError, "false", events, subs, EmptyObject)
    ELSE IF handler = NoHandler
    THEN Outcome(NoError, "true", splice(events, eventIndex(events, eventName)),
                 DeleteProperty(subs, eventName),
                 SetProperty(EmptyObject, eventName, subs[eventName]))
    ELSE LET index == indexOf(subs[eventName], handler)
             spliced == splice(subs[eventName], index)
         IN  IF index > -1
             THEN IF Len(spliced) <= 0
                  THEN Outcome(NoError, "true", events, DeleteProperty(subs, eventName),
                               SetProperty(EmptyObject, eventName, spliced))
                  ELSE Outcome(NoError, "true", events,
                               SetProperty(subs, eventName, spliced), EmptyObject)
             ELSE Outcome(NoError, "true", events, subs, EmptyObject)

\* a variant that removes every occurrence of the handler
unsubscribeEveryOccurrence(events, subs, eventName, handler) ==
    IF eventName = NoName THEN Thrown("MissingEventName", events, subs)
    ELSE IF ~isRegistered(events, eventName) THEN Thrown("NotRegistered", events, subs)
    ELSE IF MethodShadowed(subs) THEN Thrown("TypeError", events, subs)
    ELSE IF ~hasOwnProperty(subs, eventName)
    THEN Outcome(NoError, "false", events, subs, EmptyObject)
    ELSE IF handler = NoHandler
    THEN Outcome(NoError, "true", events, DeleteProperty(subs, eventName),
                 SetProperty(EmptyObject, eventName, subs[eventName]))
    ELSE LET filtered == SelectSeq(subs[eventName], LAMBDA h : h # handler)
         IN  IF Len(filtered) <= 0
             THEN Outcome(NoError, "true", events, DeleteProperty(subs, eventName),
                          SetProperty(EmptyObject, eventName, filtered))
             ELSE Outcome(NoError, "true", events,
                          SetProperty(subs, eventName, filtered), EmptyObject)

unsubscribe(events, subs, eventName, handler) ==
    IF eventName = NoName THEN Thrown("MissingEventName", events, subs)
    ELSE IF ~isRegistered(events, eventName) THEN Thrown("NotRegistered", events, subs)
    ELSE IF MethodShadowed(subs) THEN Thrown("TypeError", events, subs)
    ELSE IF ~hasOwnProperty(subs, eventName)
    THEN Outcome(NoError, "false", events, subs, EmptyObject)
    ELSE IF handler = NoHandler
    THEN Outcome(NoError, "true", events, DeleteProperty(subs, eventName),
                 SetProperty(EmptyObject, eventName, subs[eventName]))
    ELSE LET index == indexOf(subs[eventName], handler)
             spliced == splice(subs[eventName], index)
         IN  IF index > -1
             THEN IF Len(spliced) <= 0
                  THEN Outcome(NoError, "true", events, DeleteProperty(subs, eventName),
                               SetProperty(EmptyObject, eventName, spliced))
                  ELSE Outcome(NoError, "true", events,
                               SetProperty(subs, eventName, spliced), EmptyObject)
             ELSE Outcome(NoError, "true", events, subs, EmptyObject)

\* a variant that forgets the handlers: no call of unsubscribe
deregisterKeepingHandlers(events, subs, eventName) ==
    LET index == eventIndex(events, eventName)
    IN  IF eventName = NoName THEN Thrown("MissingEventName", events, subs)
        ELSE IF index > -1
        THEN Outcome(NoError, "void", splice(events, index), subs, EmptyObject)
        ELSE Thrown("NotRegistered", events, subs)

\* a variant that removes the last event: registeredEvents.pop()
deregisterLast(events, subs, eventName) ==
    LET index == eventIndex(events, eventName)
        unsubscribed == unsubscribe(events, subs, eventName, NoHandler)
    IN  IF eventName = NoName THEN Thrown("MissingEventName", events, subs)
        ELSE IF index > -1
        THEN Outcome(NoError, "void", SubSeq(events, 1, Len(events) - 1),
                     unsubscribed.subs, unsubscribed.detached)
        ELSE Thrown("NotRegistered", events, subs)

deregister(events, subs, eventName) ==
    LET index == eventIndex(events, eventName)
        unsubscribed == unsubscribe(events, subs, eventName, NoHandler)
    IN  IF eventName = NoName THEN Thrown("MissingEventName", events, subs)
        ELSE IF index > -1
        THEN IF unsubscribed.err # NoError
             THEN Thrown(unsubscribed.err, events, subs)
             ELSE Outcome(NoError, "void", splice(events, index),
                          unsubscribed.subs, unsubscribed.detached)
        ELSE Thrown("NotRegistered", events, subs)

\* a variant that forgets the subscriptions: only registeredEvents = []
deregisterAllEvents(events, subs) ==
    Outcome(NoError, "void", << >>, subs, EmptyObject)

deregisterAll(events, subs) ==
    Outcome(NoError, "void", << >>, EmptyObject, subs)

\* a variant that counts every parameter: event.parameters.length
parameterCount(parameters) == Len(parameters)

\* the count of the leading required parameters of the event
requiredParameterCount(parameters) ==
    Cardinality({k \in 1..Len(parameters) : \A j \in 1..k : ~parameters[j].optional})

\* a variant that adds a handler only when the event does not have it yet
subscribeOnce(events, subs, eventName, handler) ==
    IF eventName = NoName THEN Thrown("MissingEventName", events, subs)
    ELSE IF ~isRegistered(events, eventName) THEN Thrown("NotRegistered", events, subs)
    ELSE IF handler = NoHandler THEN Thrown("MissingHandler", events, subs)
    ELSE LET event == getEvent(events, subs, eventName).event
             array == IF hasOwnProperty(subs, eventName) THEN subs[eventName] ELSE << >>
         IN  IF requiredParameterCount(event.parameters) > FunctionLength(handler)
             THEN Thrown("ArityMismatch", events, subs)
             ELSE IF indexOf(array, handler) > -1
             THEN Outcome(NoError, handler, events, subs, EmptyObject)
             ELSE Outcome(NoError, handler, events,
                          SetProperty(subs, eventName, push(array, handler)), EmptyObject)

\* a variant that creates the array of the event before it checks the handler
subscribeCreatingFirst(events, subs, eventName, handler) ==
    IF eventName = NoName THEN Thrown("MissingEventName", events, subs)
    ELSE IF ~isRegistered(events, eventName) THEN Thrown("NotRegistered", events, subs)
    ELSE IF handler = NoHandler THEN Thrown("MissingHandler", events, subs)
    ELSE LET event == getEvent(events, subs, eventName).event
             array == IF hasOwnProperty(subs, eventName) THEN subs[eventName] ELSE << >>
         IN  IF requiredParameterCount(event.parameters) > FunctionLength(handler)
             THEN Thrown("ArityMismatch", events, SetProperty(subs, eventName, array))
             ELSE Outcome(NoError, handler, events,
                          SetProperty(subs, eventName, push(array, handler)), EmptyObject)

\* the array that subscriptions[eventName] = [] takes the place of: there
\* is one when the assignment sets the prototype a second time
Replaced(subs, eventName) ==
    IF ~hasOwnProperty(subs, eventName) /\ eventName \in DOMAIN subs
    THEN SetProperty(EmptyObject, eventName, subs[eventName])
    ELSE EmptyObject

subscribe(events, subs, eventName, handler) ==
    IF eventName = NoName THEN Thrown("MissingEventName", events, subs)
    ELSE IF ~isRegistered(events, eventName) THEN Thrown("NotRegistered", events, subs)
    ELSE IF handler = NoHandler THEN Thrown("MissingHandler", events, subs)
    ELSE LET event == getEvent(events, subs, eventName).event
             array == IF hasOwnProperty(subs, eventName) THEN subs[eventName] ELSE << >>
         IN  IF requiredParameterCount(event.parameters) > FunctionLength(handler)
             THEN Thrown("ArityMismatch", events, subs)
             ELSE IF MethodShadowed(subs) THEN Thrown("TypeError", events, subs)
             ELSE Outcome(NoError, handler, events,
                          SetProperty(subs, eventName, push(array, handler)),
                          Replaced(subs, eventName))

\* a variant whose validation loop starts at the second handler
publishStartFromSecond(events, subs, check, eventName, args) ==
    LET eventHandlers == SubscriptionsOrNew(subs, eventName)
        array == Deref(eventHandlers, eventName, subs)
        got == getEvent(events, subs, eventName)
    IN  IF eventName = NoName
        THEN [err |-> "MissingEventName", eventHandlers |-> eventHandlers]
        ELSE IF ~check
        THEN [err |-> NoError, eventHandlers |-> eventHandlers]
        ELSE IF got.err # NoError
        THEN [err |-> got.err, eventHandlers |-> eventHandlers]
        ELSE IF \E i \in 2..Len(array) :
                    checkHandlersArgumentsMatchParametersDefined(got.event, args) # NoError
        THEN [err |-> "ArgumentMismatch", eventHandlers |-> eventHandlers]
        ELSE [err |-> NoError, eventHandlers |-> eventHandlers]

\* a variant that makes the checks whatever the mode flag is
publishStartChecking(events, subs, check, eventName, args) ==
    LET eventHandlers == SubscriptionsOrNew(subs, eventName)
        array == Deref(eventHandlers, eventName, subs)
        got == getEvent(events, subs, eventName)
    IN  IF eventName = NoName
        THEN [err |-> "MissingEventName", eventHandlers |-> eventHandlers]
        ELSE IF got.err # NoError
        THEN [err |-> got.err, eventHandlers |-> eventHandlers]
        ELSE IF \E i \in 1..Len(array) :
                    checkHandlersArgumentsMatchParametersDefined(got.event, args) # NoError
        THEN [err |-> "ArgumentMismatch", eventHandlers |-> eventHandlers]
        ELSE [err |-> NoError, eventHandlers |-> eventHandlers]

\* a variant that returns before the checks when nothing is subscribed
publishStartUnlessEmpty(events, subs, check, eventName, args) ==
    LET eventHandlers == SubscriptionsOrNew(subs, eventName)
        got == getEvent(events, subs, eventName)
    IN  IF eventName = NoName
        THEN [err |-> "MissingEventName", eventHandlers |-> eventHandlers]
        ELSE IF ~check \/ ~hasOwnProperty(subs, eventName)
        THEN [err |-> NoError, eventHandlers |-> eventHandlers]
        ELSE IF got.err # NoError
        THEN [err |-> got.err, eventHandlers |-> eventHandlers]
        ELSE [err |-> checkHandlersArgumentsMatchParametersDefined(got.event, args),
              eventHandlers |-> eventHandlers]

\* publish up to its second loop: the error thrown before any handler is
\* called, and the array the loops read
publishStart(events, subs, check, eventName, args) ==
    LET eventHandlers == SubscriptionsOrNew(subs, eventName)
        array == Deref(eventHandlers, eventName, subs)
        got == getEvent(events, subs, eventName)
    IN  IF eventName = NoName
        THEN [err |-> "MissingEventName", eventHandlers |-> eventHandlers]
        ELSE IF ~check
        THEN [err |-> NoError, eventHandlers |-> eventHandlers]
        ELSE IF got.err # NoError
        THEN [err |-> got.err, eventHandlers |-> eventHandlers]
        ELSE IF \E i \in 1..Len(array) :
                    checkHandlersArgumentsMatchParametersDefined(got.event, args) # NoError
        THEN [err |-> "ArgumentMismatch", eventHandlers |-> eventHandlers]
        ELSE [err |-> NoError, eventHandlers |-> eventHandlers]

(***************************************************************************)
(* The state machine.  A call of register, deregister, deregisterAll,      *)
(* subscribe or unsubscribe is one step.  A call of publish is several:    *)
(* its start (the checks and the validation loop), then for each handler   *)
(* the call of the handler and the handler's return or throw, and the end  *)
(* of the loop.  While a handler runs it may call the Publisher itself, so *)
(* every call but publish is possible either from outside (no publish in   *)
(* progress) or from the handler that is running.  The handlers of the     *)
(* model do not call publish, so at most one publish call is in progress.  *)
(***************************************************************************)
Top == stack[Len(stack)]

CanCall == IF stack = << >> THEN TRUE ELSE Top.pc = "handler"

\* what is known of eventName when a call starts: whether it is registered,
\* its declared parameters, and its handler sequence
Before(eventName) ==
    LET index == eventIndex(registeredEvents, eventName)
    IN  [registered |-> index > -1,
         parameters |-> IF index > -1 THEN registeredEvents[index + 1].parameters ELSE << >>,
         handlers |-> HandlersOf(subscriptions, eventName)]

\* the record kept of a call that ended: the call and its arguments, the
\* error thrown or the value returned, the event as it was when the call
\* started (registered, parameters, pre: its handler sequence) and, for
\* publish, the handler calls it made (invoked) and the calls of its handlers
\* that changed the registry (made); for an accessor, what it returned (got)
Result(op, eventName, handler, args, err, ret, before, invoked, made) ==
    [op |-> op, eventName |-> eventName, handler |-> handler, args |-> args,
     err |-> err, ret |-> ret,
     registered |-> before.registered, parameters |-> before.parameters,
     pre |-> before.handlers, invoked |-> invoked, made |-> made, got |-> << >>]

Nothing == [registered |-> FALSE, parameters |-> << >>, handlers |-> << >>]

\* while a publish call is in progress result says only that
Publishing ==
    Result("publishing", NoName, NoHandler, << >>, NoError, "none", Nothing, << >>, << >>)

\* result records the calls made from outside, not those a handler makes;
\* args is the parameter list given to register, and empty for the other calls
CallResult(op, eventName, handler, args, out) ==
    IF stack = << >>
    THEN [Result(op, eventName, handler, args, out.err, out.ret,
                 Before(eventName), << >>, << >>)
             EXCEPT !.got = IF out.err = NoError
                            THEN Returned(op, registeredEvents, subscriptions, eventName)
                            ELSE << >>]
    ELSE Publishing

\* the event getEvent(eventName) finds, whose handlers field it writes
Found(eventName) ==
    IF eventName # NoName /\ isRegistered(registeredEvents, eventName)
    THEN {eventName} ELSE {}

\* the end of a call that is a single step; field: the handlers fields as
\* the calls of getEvent the call made have left them
Finish(op, eventName, handler, args, out, field) ==
    LET changed == \/ out.subs # subscriptions
                   \/ out.events # registeredEvents
    IN  /\ stack # << >> /\ changed => Len(Top.made) < MaxCalls
        /\ registeredEvents' = out.events
        /\ subscriptions' = out.subs
        /\ handlers' = HandlersAfter(field, out)
        /\ stack' = [k \in 1..Len(stack) |->
                        [stack[k] EXCEPT
                            !.eventHandlers = Detach(@, stack[k].eventName, out.detached),
                            !.made = IF changed
                                     THEN Append(@, [op |-> op, eventName |-> eventName,
                                                     handler |-> handler])
                                     ELSE @]]
        /\ result' = CallResult(op, eventName, handler, args, out)
        /\ UNCHANGED checkEventAndArgumentsOnPublish

Register(eventName, parameters, description, registrant) ==
    /\ CanCall
    /\ Finish("register", eventName, NoHandler, parameters,
              register(registeredEvents, subscriptions, eventName,
                       parameters, description, registrant), handlers)

Deregister(eventName) ==
    /\ CanCall
    /\ Finish("deregister", eventName, NoHandler, << >>,
              deregister(registeredEvents, subscriptions, eventName), handlers)

DeregisterAll ==
    /\ CanCall
    /\ Finish("deregisterAll", NoName, NoHandler, << >>,
              deregisterAll(registeredEvents, subscriptions), handlers)

Subscribe(eventName, handler) ==
    /\ CanCall
    /\ SubscriptionCount(subscriptions) < MaxHandlers
    /\ Finish("subscribe", eventName, handler, << >>,
              subscribe(registeredEvents, subscriptions, eventName, handler),
              SetHandlers(handlers, subscriptions,
                          IF handler # NoHandler THEN Found(eventName) ELSE {}))

Unsubscribe(eventName, handler) ==
    /\ CanCall
    /\ Finish("unsubscribe", eventName, handler, << >>,
              unsubscribe(registeredEvents, subscriptions, eventName, handler), handlers)

\* getEvent(eventName)
GetEvent(eventName) ==
    /\ CanCall
    /\ Finish("getEvent", eventName, NoHandler, << >>,
              getEventCall(registeredEvents, subscriptions, eventName),
              HandOut(handlers, subscriptions, Found(eventName)))

\* getAllEvents()
GetAllEvents ==
    /\ CanCall
    /\ Finish("getAllEvents", NoName, NoHandler, << >>,
              getAllEvents(registeredEvents, subscriptions),
              HandOut(handlers, subscriptions, RegisteredNames(registeredEvents)))

\* getEventDescription(eventName): getEvent(eventName).description
GetEventDescription(eventName) ==
    /\ CanCall
    /\ Finish("getEventDescription", eventName, NoHandler, << >>,
              getEventCall(registeredEvents, subscriptions, eventName),
              SetHandlers(handlers, subscriptions, Found(eventName)))

\* getEventHandlers(eventName): getEvent(eventName).handlers
GetEventHandlers(eventName) ==
    /\ CanCall
    /\ Finish("getEventHandlers", eventName, NoHandler, << >>,
              getEventCall(registeredEvents, subscriptions, eventName),
              SetHandlers(handlers, subscriptions, Found(eventName)))

\* getEventParameters(eventName): getEvent(eventName).parameters
GetEventParameters(eventName) ==
    /\ CanCall
    /\ Finish("getEventParameters", eventName, NoHandler, << >>,
              getEventCall(registeredEvents, subscriptions, eventName),
              SetHandlers(handlers, subscriptions, Found(eventName)))

\* getEventRegistrant(eventName): getEvent(eventName).registrant
GetEventRegistrant(eventName) ==
    /\ CanCall
    /\ Finish("getEventRegistrant", eventName, NoHandler, << >>,
              getEventCall(registeredEvents, subscriptions, eventName),
              SetHandlers(handlers, subscriptions, Found(eventName)))

\* a variant whose second loop starts at the second handler: let i = 1
FrameFromSecond(eventName, args, eventHandlers) ==
    [eventName |-> eventName, args |-> args, eventHandlers |-> eventHandlers,
     i |-> 1, pc |-> "next", before |-> Before(eventName),
     invoked |-> << >>, made |-> << >>]

\* the frame of a publish call whose start threw nothing: the variables of
\* the call (eventName, args, eventHandlers, i), where it is (pc: "next" in
\* the loop, "handler" in the handler called) and what it has done so far
Frame(eventName, args, eventHandlers) ==
    [eventName |-> eventName, args |-> args, eventHandlers |-> eventHandlers,
     i |-> 0, pc |-> "next", before |-> Before(eventName),
     invoked |-> << >>, made |-> << >>]

PublishResult(frame, err) ==
    Result("publish", frame.eventName, NoHandler, frame.args, err,
           IF err = NoError THEN "void" ELSE "none",
           frame.before, frame.invoked, frame.made)

\* publish(eventName, ...args) up to the loop that calls the handlers
Publish(eventName, args) ==
    LET start == publishStart(registeredEvents, subscriptions,
                              checkEventAndArgumentsOnPublish, eventName, args)
        frame == Frame(eventName, args, start.eventHandlers)
    IN  /\ stack = << >>
        /\ IF start.err # NoError
           THEN /\ result' = PublishResult(frame, start.err)
                /\ stack' = stack
           ELSE /\ stack' = Append(stack, frame)
                /\ result' = Publishing
        /\ handlers' = SetHandlers(handlers, subscriptions,
                                   IF checkEventAndArgumentsOnPublish
                                   THEN Found(eventName) ELSE {})
        /\ UNCHANGED <<registeredEvents, subscriptions, checkEventAndArgumentsOnPublish>>

\* a variant that reads the array from its end
NextHandlerFromEnd(array, i) == array[Len(array) - i]

\* eventHandlers[i], i counted from 0
NextHandler(array, i) == array[i + 1]

\* the loop of publish finds a handler at eventHandlers[i] and calls it with
\* the arguments of publish
InvokeHandler ==
    /\ stack # << >>
    /\ Top.pc = "next"
    /\ LET array == Deref(Top.eventHandlers, Top.eventName, subscriptions)
       IN  /\ Top.i < Len(array)
           /\ stack' = [stack EXCEPT ![Len(stack)] =
                  [@ EXCEPT !.pc = "handler",
                            !.invoked = Append(@, [handler |-> NextHandler(array, Top.i),
                                                   args |-> Top.args])]]
    /\ UNCHANGED <<registeredEvents, subscriptions, checkEventAndArgumentsOnPublish,
                   handlers, result>>

\* the handler called returns; the loop goes on with i + 1
HandlerReturn ==
    /\ stack # << >>
    /\ Top.pc = "handler"
    /\ stack' = [stack EXCEPT ![Len(stack)] = [@ EXCEPT !.pc = "next", !.i = @ + 1]]
    /\ UNCHANGED <<registeredEvents, subscriptions, checkEventAndArgumentsOnPublish,
                   handlers, result>>

\* the handler called throws; publish does not catch, so the call ends
HandlerThrow ==
    /\ stack # << >>
    /\ Top.pc = "handler"
    /\ stack' = SubSeq(stack, 1, Len(stack) - 1)
    /\ result' = PublishResult(Top, "HandlerError")
    /\ UNCHANGED <<registeredEvents, subscriptions, checkEventAndArgumentsOnPublish, handlers>>

\* the loop of publish finds nothing at eventHandlers[i]; publish returns
PublishReturn ==
    /\ stack # << >>
    /\ Top.pc = "next"
    /\ ~(Top.i < Len(Deref(Top.eventHandlers, Top.eventName, subscriptions)))
    /\ stack' = SubSeq(stack, 1, Len(stack) - 1)
    /\ result' = PublishResult(Top, NoError)
    /\ UNCHANGED <<registeredEvents, subscriptions, checkEventAndArgumentsOnPublish, handlers>>

Init ==
    /\ registeredEvents = << >>
    /\ subscriptions = EmptyObject
    /\ checkEventAndArgumentsOnPublish \in BOOLEAN
    /\ handlers = EmptyObject
    /\ stack = << >>
    /\ result = Result("new", NoName, NoHandler, << >>, NoError, "none",
                       Nothing, << >>, << >>)

Next ==
    \/ \E eventName \in NameInputs, parameters \in ParameterLists,
          description \in Descriptions, registrant \in Registrants :
            Register(eventName, parameters, description, registrant)
    \/ \E eventName \in NameInputs : Deregister(eventName)
    \/ DeregisterAll
    \/ \E eventName \in NameInputs, handler \in HandlerInputs : Subscribe(eventName, handler)
    \/ \E eventName \in NameInputs, handler \in HandlerInputs : Unsubscribe(eventName, handler)
    \/ \E eventName \in NameInputs, args \in ArgLists : Publish(eventName, args)
    \/ InvokeHandler
    \/ HandlerReturn
    \/ HandlerThrow
    \/ PublishReturn

Spec == Init /\ [][Next]_vars

(***************************************************************************)
(* Declarations.  A second specification explores what the construction of *)
(* a PublisherEvent does with a declaration, and what the argument check   *)
(* of the event constructed does with an argument list: register is called *)
(* on a registry that holds nothing (a new one, or one that deregisterAll   *)
(* has emptied) with every parameter list up to MaxParameters descriptors, *)
(* and checkHandlersArgumentsMatchParametersDefined is called on the event *)
(* registered, which getEvent gives.                                       *)
(***************************************************************************)
\* well-formed descriptors, one whose name Object.prototype has, one without
\* a name and one whose type is no JavaScript type
DescriptorInputs ==
    {Descriptor(n, t, o) : n \in {"x", "y", "z"}, t \in {"number", "string"}, o \in BOOLEAN}
        \cup {Descriptor("constructor", "number", FALSE),
              Descriptor("", "number", FALSE),
              Descriptor("x", "array", FALSE)}

RECURSIVE ListsUpTo(_, _)
ListsUpTo(S, n) ==
    IF n = 0 THEN {<< >>}
    ELSE LET shorter == ListsUpTo(S, n - 1)
         IN  shorter \cup {Append(l, e) : l \in shorter, e \in S}

DeclaredLists == ListsUpTo(DescriptorInputs, MaxParameters)

\* a description that is text and one that is not
DescriptionInputs == {StringValue, NumberValue}

ArgumentLists == ListsUpTo({Undefined, NumberValue, StringValue}, MaxArguments)

\* the registry holds nothing and no call but its construction or
\* deregisterAll has been made on it
Fresh ==
    /\ stack = << >>
    /\ registeredEvents = << >>
    /\ result.op \in {"new", "deregisterAll"}

\* register("a", parameters, description, this) on such a registry
Declare(parameters, description) ==
    Register("a", parameters, description, "this")

\* getEvent("a").checkHandlersArgumentsMatchParametersDefined(...args), on
\* the event just registered
CheckArguments(args) ==
    LET got == getEvent(registeredEvents, subscriptions, "a")
    IN  /\ result.op = "register"
        /\ result.err = NoError
        /\ got.err = NoError
        /\ result' = Result("checkArguments", "a", NoHandler, args,
                            checkHandlersArgumentsMatchParametersDefined(got.event, args),
                            "none", Before("a"), << >>, << >>)
        /\ handlers' = SetHandlers(handlers, subscriptions, Found("a"))
        /\ UNCHANGED <<registeredEvents, subscriptions, checkEventAndArgumentsOnPublish, stack>>

NextEvent ==
    \/ /\ Fresh
       /\ \E parameters \in DeclaredLists, description \in DescriptionInputs :
              Declare(parameters, description)
    \/ \E args \in ArgumentLists : CheckArguments(args)
    \/ DeregisterAll

SpecEvent == Init /\ [][NextEvent]_vars

(***************************************************************************)
(* A third specification, for the accessors: the six accessors, called     *)
(* with any name or none, and the calls that change the registry, with     *)
(* no publish call in progress.  The registry is built with well-formed    *)
(* calls: a name, a valid declaration, a handler to subscribe.  One of     *)
(* the names is a name every object inherits a property for.               *)
(***************************************************************************)
\* the names of the events: one is the name of a method of Object.prototype
ReadNames == {"a", "hasOwnProperty"}

ReadNameInputs == ReadNames \cup {NoName}

\* the parameter lists register accepts
ValidParameterLists ==
    {parameters \in ParameterLists :
        PublisherEvent("a", parameters, StringValue, "this").err = NoError}

Accessors ==
    {"getEvent", "getAllEvents", "getEventDescription", "getEventHandlers",
     "getEventParameters", "getEventRegistrant"}

NextRead ==
    \/ \E eventName \in ReadNames, parameters \in ValidParameterLists,
          description \in Descriptions, registrant \in Registrants :
            Register(eventName, parameters, description, registrant)
    \/ \E eventName \in ReadNames : Deregister(eventName)
    \/ DeregisterAll
    \/ \E eventName \in ReadNames, handler \in Handlers : Subscribe(eventName, handler)
    \/ \E eventName \in ReadNames, handler \in HandlerInputs : Unsubscribe(eventName, handler)
    \/ \E eventName \in ReadNameInputs : GetEvent(eventName)
    \/ GetAllEvents
    \/ \E eventName \in ReadNameInputs : GetEventDescription(eventName)
    \/ \E eventName \in ReadNameInputs : GetEventHandlers(eventName)
    \/ \E eventName \in ReadNameInputs : GetEventParameters(eventName)
    \/ \E eventName \in ReadNameInputs : GetEventRegistrant(eventName)

SpecRead == Init /\ [][NextRead]_vars

(***************************************************************************)
(* A fourth specification: the first Publisher of the source (lines        *)
(* 10-138; src/unnamed/part_000 holds it compiled), which has no events to *)
(* register and whose publish returns a boolean.  Its field events, the    *)
(* handlers by event name, is the variable subscriptions here, which is    *)
(* what the later class calls it.  The handlers of this specification do   *)
(* not call the Publisher, so publish is one step.                         *)
(***************************************************************************)
\* the event argument left out: undefined
NoEvent == "undefined"

EventInputs == ReadNames \cup {NoEvent}

\* subscribe(event, handler)
legacySubscribe(subs, event, handler) ==
    LET array == IF hasOwnProperty(subs, event) THEN subs[event] ELSE << >>
    IN  IF handler = NoHandler THEN Thrown("MissingHandler", << >>, subs)
        ELSE IF MethodShadowed(subs) THEN Thrown("TypeError", << >>, subs)
        ELSE Outcome(NoError, handler, << >>,
                     SetProperty(subs, event, push(array, handler)), EmptyObject)

\* unsubscribe(event, handler)
legacyUnsubscribe(subs, event, handler) ==
    IF event = NoEvent THEN Thrown("MissingEventName", << >>, subs)
    ELSE IF MethodShadowed(subs) THEN Thrown("TypeError", << >>, subs)
    ELSE IF ~hasOwnProperty(subs, event)
    THEN Outcome(NoError, "false", << >>, subs, EmptyObject)
    ELSE IF handler = NoHandler
    THEN Outcome(NoError, "true", << >>, DeleteProperty(subs, event),
                 SetProperty(EmptyObject, event, subs[event]))
    ELSE LET index == indexOf(subs[event], handler)
             spliced == splice(subs[event], index)
         IN  IF index > -1
             THEN IF Len(spliced) <= 0
                  THEN Outcome(NoError, "true", << >>, DeleteProperty(subs, event),
                               SetProperty(EmptyObject, event, spliced))
                  ELSE Outcome(NoError, "true", << >>,
                               SetProperty(subs, event, spliced), EmptyObject)
             ELSE Outcome(NoError, "true", << >>, subs, EmptyObject)

\* publish(event, ...args): the error thrown or the boolean returned, and the
\* handlers called with the arguments, in order
legacyPublish(subs, event, args) ==
    IF event = NoEvent
    THEN [err |-> "MissingEventName", ret |-> "none", invoked |-> << >>]
    ELSE IF MethodShadowed(subs)
    THEN [err |-> "TypeError", ret |-> "none", invoked |-> << >>]
    ELSE IF ~hasOwnProperty(subs, event)
    THEN [err |-> NoError, ret |-> "false", invoked |-> << >>]
    ELSE [err |-> NoError, ret |-> "true",
          invoked |-> [i \in 1..Len(subs[event]) |->
                          [handler |-> NextHandler(subs[event], i - 1), args |-> args]]]

LegacySubscribe(event, handler) ==
    /\ SubscriptionCount(subscriptions) < MaxHandlers
    /\ Finish("subscribe", event, handler, << >>,
              legacySubscribe(subscriptions, event, handler), handlers)

LegacyUnsubscribe(event, handler) ==
    Finish("unsubscribe", event, handler, << >>,
           legacyUnsubscribe(subscriptions, event, handler), handlers)

LegacyPublish(event, args) ==
    LET out == legacyPublish(subscriptions, event, args)
    IN  /\ result' = Result("publish", event, NoHandler, args, out.err, out.ret,
                            Before(event), out.invoked, << >>)
        /\ UNCHANGED <<registeredEvents, subscriptions, checkEventAndArgumentsOnPublish,
                       handlers, stack>>

\* the first Publisher has no mode flag
InitLegacy == Init /\ ~checkEventAndArgumentsOnPublish

NextLegacy ==
    \/ \E event \in ReadNames, handler \in HandlerInputs : LegacySubscribe(event, handler)
    \/ \E event \in EventInputs, handler \in HandlerInputs : LegacyUnsubscribe(event, handler)
    \/ \E event \in EventInputs, args \in ArgLists : LegacyPublish(event, args)

SpecLegacy == InitLegacy /\ [][NextLegacy]_vars

(***************************************************************************)
(* A fifth specification: the constructor of ParameterDefinition, called   *)
(* with values of any type for its four arguments.                         *)
(***************************************************************************)
\* a name, the empty text, and two values that are not text
NameValues == {Text("x"), EmptyText, Undefined, NumberValue}

\* the six types, two texts that are no type, and two values that are not text
TypeValues ==
    {Text(validTypes[k]) : k \in 1..Len(validTypes)}
        \cup {Text("array"), EmptyText, Undefined, NumberValue}

\* the booleans, and truthy and falsy values that are not booleans
OptionalValues ==
    {Undefined, Boolean(TRUE), Boolean(FALSE), NumberValue, Zero, EmptyText, StringValue}

\* texts, and truthy and falsy values that are not text
DescriptionValues == {Undefined, StringValue, EmptyText, NumberValue, Zero, Boolean(FALSE)}

\* new ParameterDefinition(name, type, optional, description); result keeps
\* the four arguments (args) and the object under construction (got)
Construct(name, type, optional, description) ==
    LET made == ParameterDefinition(name, type, optional, description)
    IN  /\ result' = [Result("ParameterDefinition", NoName, NoHandler,
                             <<name, type, optional, description>>,
                             made.err, "none", Nothing, << >>, << >>)
                         EXCEPT !.got = <<made.this>>]
        /\ UNCHANGED <<registeredEvents, subscriptions, checkEventAndArgumentsOnPublish,
                       handlers, stack>>

NextParameter ==
    \E name \in NameValues, type \in TypeValues, optional \in OptionalValues,
       description \in DescriptionValues :
        Construct(name, type, optional, description)

SpecParameter == Init /\ [][NextParameter]_vars

(***************************************************************************)
(* A sixth specification: the registry with an event named "__proto__",    *)
(* the name under which a plain object gives and takes its prototype, and  *)
(* an event named "length", a property every array has.  The calls are     *)
(* those of the first specification, with a name and a valid declaration.  *)
(***************************************************************************)
ProtoNames == {Proto, "length"}

NextProto ==
    \/ \E eventName \in ProtoNames, parameters \in ValidParameterLists,
          description \in Descriptions, registrant \in Registrants :
            Register(eventName, parameters, description, registrant)
    \/ \E eventName \in ProtoNames : Deregister(eventName)
    \/ DeregisterAll
    \/ \E eventName \in ProtoNames, handler \in Handlers : Subscribe(eventName, handler)
    \/ \E eventName \in ProtoNames, handler \in HandlerInputs : Unsubscribe(eventName, handler)
    \/ \E eventName \in ProtoNames, args \in ArgLists : Publish(eventName, args)
    \/ InvokeHandler
    \/ HandlerReturn
    \/ HandlerThrow
    \/ PublishReturn

SpecProto == Init /\ [][NextProto]_vars

(***************************************************************************)
(* Properties.                                                             *)
(***************************************************************************)
\* the handlers of a sequence of handler calls
InvokedHandlers(invoked) == [k \in 1..Len(invoked) |-> invoked[k].handler]

\* how often handler occurs in a sequence of handlers
Count(seq, handler) == Cardinality({k \in 1..Len(seq) : seq[k] = handler})

\* seq without its first occurrence of handler
RemoveFirst(seq, handler) ==
    LET first == CHOOSE k \in 1..Len(seq) :
                    seq[k] = handler /\ \A j \in 1..(k - 1) : seq[j] # handler
    IN  [k \in 1..(Len(seq) - 1) |-> IF k < first THEN seq[k] ELSE seq[k + 1]]

IsPrefix(short, long) ==
    /\ Len(short) <= Len(long)
    /\ \A k \in 1..Len(short) : short[k] = long[k]

\* every handler of seq called once, in the order of seq, each with args
EachOnceInOrder(invoked, seq, args) ==
    /\ Len(invoked) = Len(seq)
    /\ \A k \in 1..Len(seq) : invoked[k].handler = seq[k] /\ invoked[k].args = args

\* some required parameter has no argument of its type
RequiredMismatch(parameters, args) ==
    \E k \in 1..Len(parameters) :
        ~parameters[k].optional /\ typeof(ArgAt(args, k - 1)) # parameters[k].type

\* the handler sequence of the event of the call that ended last, now
HandlersNow == HandlersOf(subscriptions, result.eventName)

\* C1 as stated: publish on a registered event with handlers h1..hn, n >= 1,
\* none of which changes the registry, calls h1, ..., hn once each, in that
\* order, each with the arguments of publish.
C1_AsStated ==
    (/\ result.op = "publish"
     /\ result.registered
     /\ Len(result.pre) >= 1
     /\ result.made = << >>)
    => EachOnceInOrder(result.invoked, result.pre, result.args)

\* C1 amended: a publish call that raises no error (args pass the validation
\* when the mode flag is on, and no handler throws), on a registered event
\* with handlers h1..hn, n >= 1, none of which changes the registry, calls
\* h1, ..., hn once each, in that order, each with the arguments of publish.
C1_Amended ==
    (/\ result.op = "publish"
     /\ result.err = NoError
     /\ result.registered
     /\ Len(result.pre) >= 1
     /\ result.made = << >>)
    => EachOnceInOrder(result.invoked, result.pre, result.args)

C1_Witness ==
    /\ result.op = "publish"
    /\ result.err = NoError
    /\ result.registered
    /\ result.made = << >>
    /\ Len(result.pre) = 3
    /\ result.pre[1] # result.pre[2]
    /\ result.args # << >>
    /\ Len(result.invoked) = 3

\* C2 as stated: a handler g that a handler subscribes to the event being
\* published, during the publish call, is not called by that publish call:
\* when the handlers only subscribe to that event, the call calls g no more
\* often than g was subscribed when the call started.
C2_AsStated ==
    stack # << >> =>
        \A g \in Handlers :
            (/\ \E k \in 1..Len(Top.made) : Top.made[k].handler = g
             /\ \A k \in 1..Len(Top.made) :
                    /\ Top.made[k].op = "subscribe"
                    /\ Top.made[k].eventName = Top.eventName)
            => Count(InvokedHandlers(Top.invoked), g) <= Count(Top.before.handlers, g)

\* C3 as stated: when the handlers, during a publish call, only unsubscribe
\* single handlers of the event being published, the call still calls every
\* handler that was subscribed when it started, once each, in that order.
C3_AsStated ==
    (/\ result.op = "publish"
     /\ result.err = NoError
     /\ result.made # << >>
     /\ \A k \in 1..Len(result.made) :
            /\ result.made[k].op = "unsubscribe"
            /\ result.made[k].eventName = result.eventName
            /\ result.made[k].handler # NoHandler)
    => InvokedHandlers(result.invoked) = result.pre

\* C4 as stated: in validating mode, in every state, publish on a registered
\* event with arguments that do not match a required parameter fails with
\* ArgumentMismatch and calls no handler.
C4_AsStated ==
    (/\ result.op = "publish"
     /\ checkEventAndArgumentsOnPublish
     /\ result.registered
     /\ RequiredMismatch(result.parameters, result.args))
    => (result.err = "ArgumentMismatch" /\ result.invoked = << >>)

\* C4 amended: in validating mode, publish on a registered event that has at
\* least one subscriber, with arguments that do not match a required
\* parameter, fails with ArgumentMismatch and calls no handler; with no
\* subscriber it raises no error (and calls no handler).
C4_Amended ==
    (/\ result.op = "publish"
     /\ checkEventAndArgumentsOnPublish
     /\ result.registered
     /\ RequiredMismatch(result.parameters, result.args))
    => /\ result.invoked = << >>
       /\ result.err = IF Len(result.pre) >= 1 THEN "ArgumentMismatch" ELSE NoError

C4_Witness ==
    /\ result.op = "publish"
    /\ checkEventAndArgumentsOnPublish
    /\ result.registered
    /\ RequiredMismatch(result.parameters, result.args)
    /\ Len(result.pre) >= 2
    /\ result.err = "ArgumentMismatch"

\* C5 as stated: publish of a non-empty name that has no subscriber, registered
\* or not, in either mode, raises no error and calls no handler.
C5_AsStated ==
    (/\ result.op = "publish"
     /\ result.eventName # NoName
     /\ result.pre = << >>)
    => (result.err = NoError /\ result.invoked = << >>)

\* C5 amended: publish of a non-empty name that has no subscriber calls no
\* handler; it raises no error when the name is registered or the mode flag
\* is off, and fails with NotRegistered when the mode flag is on and the name
\* is not registered.
C5_Amended ==
    (/\ result.op = "publish"
     /\ result.eventName # NoName
     /\ result.pre = << >>)
    => /\ result.invoked = << >>
       /\ result.err = IF checkEventAndArgumentsOnPublish /\ ~result.registered
                       THEN "NotRegistered" ELSE NoError

C5_Witness ==
    /\ result.op = "publish"
    /\ result.eventName # NoName
    /\ result.pre = << >>
    /\ checkEventAndArgumentsOnPublish
    /\ ~result.registered
    /\ result.err = "NotRegistered"
    /\ registeredEvents # << >>

C9_AsStated ==
    (result.op = "publish" /\ result.err = "HandlerError")
    => \/ IsPrefix(InvokedHandlers(result.invoked), result.pre)
       \/ IsPrefix(InvokedHandlers(result.invoked), HandlersNow)

\* C10 as stated: a publish call makes at most as many handler calls as
\* there were handlers subscribed to the event when it started, also when
\* handlers subscribe further handlers to the event meanwhile.
C10_AsStated ==
    stack # << >> => Len(Top.invoked) <= Len(Top.before.handlers)

\* the stored definition of eventName and its handler sequence
Stored(events, subs, eventName) ==
    [definition |-> IF isRegistered(events, eventName)
                    THEN <<events[eventIndex(events, eventName) + 1]>> ELSE << >>,
     handlers |-> HandlersOf(subs, eventName),
     held |-> hasOwnProperty(subs, eventName)]

\* C11: register of a name that is registered fails with AlreadyRegistered
\* whatever parameter list, description and registrant are given (a valid
\* list, one that differs from the stored one, a malformed one), and leaves
\* the registered events and the handlers as they were: in every reachable
\* state that is what the call does, from outside or from a handler, and
\* after such a call from outside the event is as it was before the call.
C11_Theorem ==
    /\ \A eventName \in Names, parameters \in ParameterLists,
          description \in Descriptions, registrant \in Registrants :
            isRegistered(registeredEvents, eventName)
            => register(registeredEvents, subscriptions, eventName,
                        parameters, description, registrant)
                   = Thrown("AlreadyRegistered", registeredEvents, subscriptions)
    /\ (result.op = "register" /\ result.registered)
       => /\ result.err = "AlreadyRegistered"
          /\ Before(result.eventName) = [registered |-> TRUE,
                                         parameters |-> result.parameters,
                                         handlers |-> result.pre]

\* register with a malformed list failed with AlreadyRegistered on an event
\* that has handlers, and the event is as it was
C11_Witness ==
    /\ result.op = "register"
    /\ result.err = "AlreadyRegistered"
    /\ PublisherEvent(result.eventName, result.args, StringValue, "this").err
           = "DuplicateParameter"
    /\ Len(result.pre) >= 2
    /\ HandlersNow = result.pre
    /\ Stored(registeredEvents, subscriptions, result.eventName).definition[1].parameters
           = result.parameters

\* C12: in every reachable state, whatever calls were made from outside and
\* from handlers, no two stored events have the same name.
C12_Theorem ==
    \A j, k \in 1..Len(registeredEvents) :
        registeredEvents[j].name = registeredEvents[k].name => j = k

\* two events are stored, one of which the handler of the publish call in
\* progress has registered
C12_Witness ==
    /\ Len(registeredEvents) = 2
    /\ stack # << >>
    /\ \E k \in 1..Len(Top.made) :
           /\ Top.made[k].op = "register"
           /\ isRegistered(registeredEvents, Top.made[k].eventName)

\* subscribe, unsubscribe without a handler and getEvent all fail with
\* NotRegistered for eventName
AllNotRegistered(events, subs, eventName) ==
    /\ \A handler \in HandlerInputs :
           subscribe(events, subs, eventName, handler).err = "NotRegistered"
    /\ unsubscribe(events, subs, eventName, NoHandler).err = "NotRegistered"
    /\ getEvent(events, subs, eventName).err = "NotRegistered"

C14_Theorem ==
    /\ LET out == deregisterAll(registeredEvents, subscriptions)
       IN  /\ out.err = NoError
           /\ out.events = << >>
           /\ out.subs = EmptyObject
           /\ \A eventName \in Names :
                  /\ AllNotRegistered(out.events, out.subs, eventName)
                  /\ \A args \in ArgLists, check \in BOOLEAN :
                         LET start == publishStart(out.events, out.subs, check, eventName, args)
                         IN  Deref(start.eventHandlers, eventName, out.subs) = << >>
    /\ result.op = "deregisterAll"
       => /\ result.err = NoError
          /\ registeredEvents = << >>
          /\ subscriptions = EmptyObject
    /\ (result.op = "publish" /\ ~result.registered) => result.invoked = << >>

\* a handler of a publish call in progress has called deregisterAll when the
\* event published was registered and had handlers: nothing is registered
\* and no handler sequence is left
C14_Witness ==
    /\ stack # << >>
    /\ Top.before.registered
    /\ Len(Top.before.handlers) >= 2
    /\ \E k \in 1..Len(Top.made) : Top.made[k].op = "deregisterAll"
    /\ registeredEvents = << >>
    /\ subscriptions = EmptyObject

\* the errors of a caller that uses the interface wrongly
UsageErrors ==
    {"MissingEventName", "NotRegistered", "AlreadyRegistered", "MissingHandler", "ArityMismatch"}

\* the call leaves registeredEvents and subscriptions as they are
LeavesUnchanged(out) ==
    /\ out.events = registeredEvents
    /\ out.subs = subscriptions
    /\ out.detached = EmptyObject

\* in this state, every call that would fail with one of these errors would
\* leave registeredEvents and subscriptions as they are
UsageErrorsChangeNothing ==
    /\ \A eventName \in NameInputs, parameters \in ParameterLists,
          description \in Descriptions, registrant \in Registrants :
            LET out == register(registeredEvents, subscriptions, eventName,
                                parameters, description, registrant)
            IN  out.err \in UsageErrors => LeavesUnchanged(out)
    /\ \A eventName \in NameInputs :
            LET out == deregister(registeredEvents, subscriptions, eventName)
            IN  out.err \in UsageErrors => LeavesUnchanged(out)
    /\ \A eventName \in NameInputs, handler \in HandlerInputs :
            LET out == subscribe(registeredEvents, subscriptions, eventName, handler)
            IN  out.err \in UsageErrors => LeavesUnchanged(out)
    /\ \A eventName \in NameInputs, handler \in HandlerInputs :
            LET out == unsubscribe(registeredEvents, subscriptions, eventName, handler)
            IN  out.err \in UsageErrors => LeavesUnchanged(out)

\* a call from outside ends with one of these errors in this step
UsageErrorStep ==
    /\ stack = << >>
    /\ stack' = << >>
    /\ result'.op \in {"register", "deregister", "subscribe", "unsubscribe", "publish"}
    /\ result'.err \in UsageErrors

\* C15: a call of register, deregister, subscribe, unsubscribe or publish that
\* fails with MissingEventName, NotRegistered, AlreadyRegistered,
\* MissingHandler or ArityMismatch leaves the registered events, their
\* definitions and every handler sequence as they were: in every reachable
\* state that is what each of the calls does, from outside or from a handler,
\* and every step in which a call from outside ends with one of these errors
\* changes neither registeredEvents nor subscriptions.
C15_Theorem ==
    /\ []UsageErrorsChangeNothing
    /\ [][UsageErrorStep => (/\ registeredEvents' = registeredEvents
                             /\ subscriptions' = subscriptions)]_vars

\* subscribe has failed with ArityMismatch on an event that had no handler
\* while another event had handlers, and no array has been made for the event
C15_Witness ==
    /\ result.op = "subscribe"
    /\ result.err = "ArityMismatch"
    /\ result.pre = << >>
    /\ ~hasOwnProperty(subscriptions, result.eventName)
    /\ Len(registeredEvents) = 2
    /\ SubscriptionCount(subscriptions) >= 2

RequiredCount(parameters) ==
    Cardinality({k \in 1..Len(parameters) : ~parameters[k].optional})

\* eventName is registered and has no handler: getEvent gives the event with
\* an empty handler array, subscribe accepts every handler that has the
\* parameters the event requires, and a publish call that starts now, with
\* any arguments in either mode, raises no error and has no handler to call
RegisteredWithoutHandlers(events, subs, eventName) ==
    LET got == getEvent(events, subs, eventName)
    IN  /\ isRegistered(events, eventName)
        /\ got.err = NoError
        /\ got.event.name = eventName
        /\ Deref(got.event.handlers, eventName, subs) = << >>
        /\ \A handler \in Handlers :
               FunctionLength(handler) >= RequiredCount(got.event.parameters)
               => LET out == subscribe(events, subs, eventName, handler)
                  IN  out.err = NoError /\ HandlersOf(out.subs, eventName) = <<handler>>
        /\ \A args \in ArgLists, check \in BOOLEAN :
               LET start == publishStart(events, subs, check, eventName, args)
               IN  /\ start.err = NoError
                   /\ Deref(start.eventHandlers, eventName, subs) = << >>

EventWithoutParametersAndHandlers(events, subs, eventName) ==
    LET got == getEvent(events, subs, eventName)
    IN  /\ got.err = NoError
        /\ got.event.name = eventName
        /\ got.event.parameters = << >>
        /\ Deref(got.event.handlers, eventName, subs) = << >>

WellFormed(parameters) ==
    \A k \in 1..Len(parameters) :
        /\ parameters[k].name # ""
        /\ parameters[k].type \in {"boolean", "number", "string", "symbol", "function", "object"}

\* some required parameter comes after an optional one
RequiredAfterOptional(parameters) ==
    \E j, k \in 1..Len(parameters) :
        j < k /\ parameters[j].optional /\ ~parameters[k].optional

\* two parameters of the list have the same name
SharedName(parameters) ==
    \E j, k \in 1..Len(parameters) : j < k /\ parameters[j].name = parameters[k].name

\* no parameter has a name that every object inherits
NoInheritedName(parameters) ==
    \A k \in 1..Len(parameters) : parameters[k].name \notin ObjectPrototype

\* the call that ended last is a register call that has constructed an
\* event from the declaration result.args
Constructed ==
    /\ result.op = "register"
    /\ result.eventName # NoName
    /\ ~result.registered

\* C21 as stated: the construction of an event from a list of well-formed
\* descriptors fails with InvalidParameterOrder exactly when some required
\* parameter comes after an optional one; required parameters followed by
\* optional ones only are not rejected for their order.
C21_AsStated ==
    (/\ Constructed
     /\ WellFormed(result.args)
     /\ NoInheritedName(result.args))
    => (result.err = "InvalidParameterOrder" <=> RequiredAfterOptional(result.args))

\* the position (from 0) of the first parameter that has the name of an
\* earlier parameter
FirstSharedName(parameters) ==
    LET shared == {k \in 1..Len(parameters) :
                      \E j \in 1..(k - 1) : parameters[j].name = parameters[k].name}
    IN  (CHOOSE k \in shared : \A j \in shared : k <= j) - 1

\* C22 as stated: the construction of an event from a list of well-formed
\* descriptors fails with DuplicateParameter if and only if two parameters
\* have the same name, and the position reported is that of the first
\* parameter that has the name of an earlier one; a list of different names
\* is never rejected as duplicate.
C22_AsStated ==
    (Constructed /\ WellFormed(result.args))
    => /\ result.err = "DuplicateParameter" <=> SharedName(result.args)
       /\ SharedName(result.args)
          => checkForDuplicateParameters(result.args) = FirstSharedName(result.args)

\* the positions (from 0) of the declared parameters whose type differs from
\* the category of the argument at the position, and that are required or
\* whose argument is present (not undefined)
Mismatches(parameters, args) ==
    {i \in 0..(Len(parameters) - 1) :
        /\ parameters[i + 1].type # typeof(ArgAt(args, i))
        /\ ~parameters[i + 1].optional \/ ArgAt(args, i) # Undefined}

\* the arguments at the positions of the declared parameters
DeclaredArguments(parameters, args) ==
    SubSeq(args, 1, IF Len(args) < Len(parameters) THEN Len(args) ELSE Len(parameters))

\* C23: the argument check of an event fails with ArgumentMismatch exactly
\* when some declared parameter at a position i has a type that differs from
\* the category of args[i] and is required or has an argument that is present;
\* the position reported is the smallest such i; the arguments beyond the
\* declared parameters make no difference.
C23_Theorem ==
    result.op = "checkArguments"
    => LET bad == Mismatches(result.parameters, result.args)
           event == [parameters |-> result.parameters]
       IN  /\ result.err = IF bad # {} THEN "ArgumentMismatch" ELSE NoError
           /\ bad # {}
              => /\ MismatchPosition(result.parameters, result.args) \in bad
                 /\ \A i \in bad : MismatchPosition(result.parameters, result.args) <= i
           /\ checkHandlersArgumentsMatchParametersDefined(
                  event, DeclaredArguments(result.parameters, result.args)) = result.err

\* the check has failed for two arguments of which the first matches, with
\* two parameters that do not match, and reports the first of the two
C23_Witness ==
    /\ result.op = "checkArguments"
    /\ result.err = "ArgumentMismatch"
    /\ Len(result.args) = 2
    /\ Mismatches(result.parameters, result.args) = {1, 2}
    /\ MismatchPosition(result.parameters, result.args) = 1

\* C24: when the mode flag is off, publish never fails with ArgumentMismatch
\* or NotRegistered, whether the name is registered or not and whether the
\* arguments match the declared parameters or not: the checks before the
\* loop raise no error for any name that is not empty, and a publish call
\* (one in which no handler throws and whose handlers leave the registry
\* alone) calls every subscribed handler, in order, with the arguments given.
C24_Theorem ==
    ~checkEventAndArgumentsOnPublish
    => /\ \A eventName \in Names, args \in ArgLists :
              publishStart(registeredEvents, subscriptions, FALSE, eventName, args).err = NoError
       /\ result.op = "publish"
          => /\ result.err \notin {"ArgumentMismatch", "NotRegistered"}
             /\ (result.err = NoError /\ result.made = << >>)
                => EachOnceInOrder(result.invoked, result.pre, result.args)

\* with the flag off, a publish call without the argument the event requires
\* has called the two handlers of the event
C24_Witness ==
    /\ ~checkEventAndArgumentsOnPublish
    /\ result.op = "publish"
    /\ result.registered
    /\ RequiredMismatch(result.parameters, result.args)
    /\ Len(result.pre) >= 2
    /\ result.err = NoError
    /\ EachOnceInOrder(result.invoked, result.pre, result.args)

\* the start of publish in a registry that validates the arguments once,
\* before the fan-out, instead of once for every subscribed handler
ValidateOnce(events, subs, check, eventName, args) ==
    LET eventHandlers == SubscriptionsOrNew(subs, eventName)
        got == getEvent(events, subs, eventName)
    IN  IF eventName = NoName
        THEN [err |-> "MissingEventName", eventHandlers |-> eventHandlers]
        ELSE IF ~check
        THEN [err |-> NoError, eventHandlers |-> eventHandlers]
        ELSE IF got.err # NoError
        THEN [err |-> got.err, eventHandlers |-> eventHandlers]
        ELSE [err |-> checkHandlersArgumentsMatchParametersDefined(got.event, args),
              eventHandlers |-> eventHandlers]

\* C25 as stated: in validating mode, in every state of the registry, with
\* any number of subscribers (zero too) and any arguments, publish raises the
\* same error, or goes on to call the same handlers, as a registry that
\* validates the arguments once before the fan-out.
C25_AsStated ==
    \A eventName \in NameInputs, args \in ArgLists :
        publishStart(registeredEvents, subscriptions, TRUE, eventName, args)
            = ValidateOnce(registeredEvents, subscriptions, TRUE, eventName, args)

\* C25 amended: in validating mode, for every event that has at least one
\* subscriber, and for every name that is empty or not registered, publish
\* raises the same error, or goes on to call the same handlers, as a registry
\* that validates the arguments once before the fan-out; for a registered
\* event without subscribers publish raises no error, where validating once
\* raises ArgumentMismatch when the arguments do not match.
C25_Amended ==
    /\ \A eventName \in NameInputs, args \in ArgLists :
           LET each == publishStart(registeredEvents, subscriptions, TRUE, eventName, args)
               once == ValidateOnce(registeredEvents, subscriptions, TRUE, eventName, args)
           IN  IF isRegistered(registeredEvents, eventName)
                  /\ HandlersOf(subscriptions, eventName) = << >>
               THEN /\ each.err = NoError
                    /\ once.err = checkHandlersArgumentsMatchParametersDefined(
                                       [parameters |-> Before(eventName).parameters], args)
                    /\ each.eventHandlers = once.eventHandlers
               ELSE each = once
    /\ (/\ checkEventAndArgumentsOnPublish
        /\ result.op = "publish"
        /\ result.made = << >>
        /\ result.err # "HandlerError"
        /\ Len(result.pre) >= 1)
       => result.err = ValidateOnce(registeredEvents, subscriptions, TRUE,
                                    result.eventName, result.args).err

\* in validating mode a publish call of an event with two handlers has
\* failed with ArgumentMismatch, as validating once does
C25_Witness ==
    /\ checkEventAndArgumentsOnPublish
    /\ result.op = "publish"
    /\ result.made = << >>
    /\ Len(result.pre) >= 2
    /\ result.err = "ArgumentMismatch"
    /\ ValidateOnce(registeredEvents, subscriptions, TRUE,
                    result.eventName, result.args).err = "ArgumentMismatch"

\* an accessor, called in this state with any name, leaves registeredEvents
\* and subscriptions as they are; and after a call of an accessor the event
\* asked for is registered or not, and has the parameters and the handler
\* sequence, as when the call started
AccessorsChangeNothing ==
    /\ \A eventName \in ReadNameInputs :
           LET out == getEventCall(registeredEvents, subscriptions, eventName)
           IN  /\ out.events = registeredEvents
               /\ out.subs = subscriptions
               /\ out.detached = EmptyObject
    /\ LET out == getAllEvents(registeredEvents, subscriptions)
       IN  /\ out.events = registeredEvents
           /\ out.subs = subscriptions
           /\ out.detached = EmptyObject
    /\ result.op \in Accessors
       => /\ result.registered = isRegistered(registeredEvents, result.eventName)
          /\ result.parameters = Before(result.eventName).parameters
          /\ result.pre = HandlersNow

\* a step that is the call of an accessor
AccessorStep == result'.op \in Accessors

\* the step writes nothing but handlers fields, and a field it has written
\* holds this.subscriptions[eventName] || []
OnlyHandlersFieldWritten ==
    /\ registeredEvents' = registeredEvents
    /\ subscriptions' = subscriptions
    /\ checkEventAndArgumentsOnPublish' = checkEventAndArgumentsOnPublish
    /\ stack' = stack
    /\ \A n \in DOMAIN handlers' :
           \/ n \in DOMAIN handlers /\ handlers'[n] = handlers[n]
           \/ handlers'[n] = SubscriptionsOrNew(subscriptions', n)

\* C26: the accessors getEvent, getAllEvents, getEventDescription,
\* getEventHandlers, getEventParameters and getEventRegistrant are pure
\* reads: in every state, a call of one of them changes neither the events
\* registered, nor a definition, nor the handler sequence of any event (all
\* it writes is the handlers field of the event objects it looks up, as
\* getEvent does at every call), so that every later call finds the registry
\* as it would without the accessor call.
C26_Theorem ==
    /\ []AccessorsChangeNothing
    /\ [][AccessorStep => OnlyHandlersFieldWritten]_vars

\* getEvent has returned an event with two handlers; the field of the event
\* object holds the array of subscriptions, and the handler sequence is as
\* it was
C26_Witness ==
    /\ result.op = "getEvent"
    /\ result.err = NoError
    /\ Len(result.pre) >= 2
    /\ HandlersNow = result.pre
    /\ result.eventName \in DOMAIN handlers
    /\ handlers[result.eventName].live
    /\ Len(registeredEvents) = 2

\* C27 as stated: getEvent(name) fails with NotRegistered exactly when name
\* is not registered; otherwise the handlers it reports, and those
\* getEventHandlers(name) returns, are exactly the handler sequence of the
\* event at the call, in subscription order, and the empty sequence when the
\* event has no subscribers.
C27_AsStated ==
    /\ \A eventName \in ReadNames :
           LET got == getEvent(registeredEvents, subscriptions, eventName)
           IN  /\ got.err = "NotRegistered" <=> ~isRegistered(registeredEvents, eventName)
               /\ got.err = NoError
                  => /\ Returned("getEvent", registeredEvents, subscriptions,
                                  eventName)[1].handlers
                          = HandlersOf(subscriptions, eventName)
                     /\ Returned("getEventHandlers", registeredEvents, subscriptions,
                                  eventName)
                          = HandlersOf(subscriptions, eventName)
    /\ (result.op \in {"getEvent", "getEventHandlers"} /\ result.eventName # NoName)
       => /\ result.err = "NotRegistered" <=> ~result.registered
          /\ result.err = NoError
             => (IF result.op = "getEvent" THEN result.got[1].handlers ELSE result.got)
                    = result.pre

\* the errors of a malformed declaration
MalformedErrors ==
    {"InvalidSignature", "InvalidParameterOrder", "DuplicateParameter", "InvalidEvent"}

\* declarations register is given: the parameter lists of the calls explored,
\* a list with a type that is no JavaScript type, one with a parameter
\* without a name, and a list of one well-formed parameter
MalformedAndValidLists ==
    ParameterLists \cup {<<Descriptor("x", "array", FALSE)>>,
                         <<Descriptor("", "number", FALSE)>>,
                         <<Descriptor("constructor", "number", FALSE)>>}

\* a valid declaration: well-formed descriptors with different names, no
\* required parameter after an optional one
ValidDeclaration(parameters) ==
    /\ WellFormed(parameters)
    /\ ~SharedName(parameters)
    /\ ~RequiredAfterOptional(parameters)

\* C28 as stated: a register call that fails because the declaration is
\* malformed (InvalidSignature, InvalidParameterOrder, DuplicateParameter or
\* InvalidEvent) stores nothing: the name stays unregistered, all other
\* events and all handler sequences are as they were, and a later register
\* of the same name with a valid declaration succeeds.
C28_AsStated ==
    /\ \A eventName \in Names, parameters \in MalformedAndValidLists,
          description \in DescriptionInputs :
           LET out == register(registeredEvents, subscriptions, eventName,
                               parameters, description, "this")
           IN  out.err \in MalformedErrors
               => /\ out.events = registeredEvents
                  /\ out.subs = subscriptions
                  /\ ~isRegistered(out.events, eventName)
    /\ (result.op = "register" /\ result.err \in MalformedErrors)
       => /\ ~isRegistered(registeredEvents, result.eventName)
          /\ ~result.registered
          /\ HandlersNow = result.pre
          /\ \A valid \in MalformedAndValidLists :
                 ValidDeclaration(valid)
                 => LET later == register(registeredEvents, subscriptions,
                                          result.eventName, valid, StringValue, "this")
                    IN  /\ later.err = NoError
                        /\ isRegistered(later.events, result.eventName)

\* C29 as stated: unsubscribe on a registered event returns false exactly
\* when the event has no subscribers at the call, and returns true in every
\* other case, whether a handler is given or not and whether the handler
\* given is found or not.
C29_AsStated ==
    /\ \A eventName \in ReadNames, handler \in HandlerInputs :
           isRegistered(registeredEvents, eventName)
           => LET out == unsubscribe(registeredEvents, subscriptions, eventName, handler)
              IN  /\ out.err = NoError
                  /\ out.ret = "false" <=> HandlersOf(subscriptions, eventName) = << >>
                  /\ out.ret = "true" <=> HandlersOf(subscriptions, eventName) # << >>
    /\ (result.op = "unsubscribe" /\ result.registered)
       => /\ result.err = NoError
          /\ result.ret = "false" <=> result.pre = << >>
          /\ result.ret = "true" <=> result.pre # << >>

\* C30 as stated: in the variants whose publish returns a boolean,
\* publish(name, args) returns false exactly when no handler is subscribed
\* to name, and then calls nothing, and otherwise returns true after it has
\* called the handlers.
C30_AsStated ==
    /\ \A event \in ReadNames, args \in ArgLists :
           LET out == legacyPublish(subscriptions, event, args)
           IN  /\ out.err = NoError
               /\ out.ret = "false" <=> HandlersOf(subscriptions, event) = << >>
               /\ out.ret = "false" => out.invoked = << >>
               /\ out.ret # "false"
                  => /\ out.ret = "true"
                     /\ InvokedHandlers(out.invoked) = HandlersOf(subscriptions, event)
    /\ (result.op = "publish" /\ result.eventName # NoEvent)
       => /\ result.err = NoError
          /\ result.ret = "false" <=> result.pre = << >>
          /\ result.ret = "false" => result.invoked = << >>
          /\ result.ret # "false"
             => /\ result.ret = "true"
                /\ InvokedHandlers(result.invoked) = result.pre

(***************************************************************************)
(* Properties of the constructor of ParameterDefinition.                   *)
(***************************************************************************)
\* the name is empty or not text
BadName(name) == typeof(name) # "string" \/ name.val = ""

\* the type is not one of the six
BadType(type) ==
    \/ typeof(type) # "string"
    \/ type.val \notin {"boolean", "number", "string", "symbol", "function", "object"}

\* the values of the model that count as false
FalsyValues == {Undefined, EmptyText, Boolean(FALSE), Zero}

\* the fields a constructed ParameterDefinition has: optional is a boolean,
\* false unless a truthy value was given; description is text, the one
\* given or, without one, the empty text
Defaulted ==
    LET this == result.got[1]
    IN  /\ this.name = result.args[1]
        /\ this.type = result.args[2]
        /\ this.optional \in BOOLEAN
        /\ this.optional <=> result.args[3] \notin FalsyValues
        /\ typeof(this.description) = "string"
        /\ this.description = IF result.args[4] \in FalsyValues
                              THEN EmptyText ELSE result.args[4]

\* C31 as stated: the construction of a ParameterSignature fails with
\* InvalidSignature exactly when the name is empty or not text, or the type
\* is not one of boolean, number, string, symbol, function, object; on
\* success optional is a boolean that is false unless a truthy value was
\* given, and description is text, empty by default.
C31_AsStated ==
    result.op = "ParameterDefinition"
    => /\ result.err \in {NoError, "InvalidSignature"}
       /\ result.err = "InvalidSignature"
          <=> (BadName(result.args[1]) \/ BadType(result.args[2]))
       /\ result.err = NoError => Defaulted

\* C31 amended: the construction fails with InvalidSignature exactly when
\* the name is empty or not text, or the type is not one of the six, or the
\* description given is a truthy value that is not text; on success optional
\* is a boolean that is false unless a truthy value was given, and
\* description is text, empty by default.
C31_Amended ==
    result.op = "ParameterDefinition"
    => /\ result.err \in {NoError, "InvalidSignature"}
       /\ result.err = "InvalidSignature"
          <=> \/ BadName(result.args[1])
              \/ BadType(result.args[2])
              \/ /\ result.args[4] \notin FalsyValues
                 /\ typeof(result.args[4]) # "string"
       /\ result.err = NoError => Defaulted

C31_Witness ==
    /\ result.op = "ParameterDefinition"
    /\ result.err = NoError
    /\ result.args = <<Text("x"), Text("object"), NumberValue, Undefined>>
    /\ result.got[1].optional = TRUE
    /\ result.got[1].description = EmptyText

(***************************************************************************)
(* Properties of calls in sequence and of calls made by handlers.          *)
(***************************************************************************)
\* every call in made that has changed the registry removes all the handlers
\* of eventName: unsubscribe(eventName) without a handler, or
\* deregister(eventName)
OnlyRemovesAll(made, eventName) ==
    \A k \in 1..Len(made) :
        /\ made[k].eventName = eventName
        /\ \/ made[k].op = "unsubscribe" /\ made[k].handler = NoHandler
           \/ made[k].op = "deregister"

\* C32 as stated: when the handlers called by a publish call change the
\* registry only by unsubscribe(name) without a handler or deregister(name),
\* for the name published, the call goes on through the handlers that were
\* subscribed when it started, in order: while it is in progress it has
\* called the first of them, and when it returns it has called each of them
\* once, with the arguments of publish; the event then has no handlers left,
\* which a later publish finds.
C32_AsStated ==
    /\ (stack # << >> /\ Top.made # << >> /\ OnlyRemovesAll(Top.made, Top.eventName))
       => /\ IsPrefix(InvokedHandlers(Top.invoked), Top.before.handlers)
          /\ Deref(Top.eventHandlers, Top.eventName, subscriptions) = Top.before.handlers
          /\ HandlersOf(subscriptions, Top.eventName) = << >>
    /\ (/\ result.op = "publish"
        /\ result.err = NoError
        /\ result.made # << >>
        /\ OnlyRemovesAll(result.made, result.eventName))
       => /\ EachOnceInOrder(result.invoked, result.pre, result.args)
          /\ HandlersNow = << >>

\* the call that ended last is a publish call that the validation of its
\* arguments has ended
AbortedPublish == result.op = "publish" /\ result.err = "ArgumentMismatch"

\* such a call was made in validating mode; it has called no handler; the
\* event published is registered with the parameters and has the handler
\* sequence it had when the call started; and publish of the same event
\* with arguments that match its parameters now passes the checks and reads
\* that handler sequence
AbortedPublishLeavesEvent ==
    AbortedPublish
    => /\ checkEventAndArgumentsOnPublish
       /\ result.invoked = << >>
       /\ result.made = << >>
       /\ stack = << >>
       /\ Before(result.eventName) = [registered |-> result.registered,
                                      parameters |-> result.parameters,
                                      handlers |-> result.pre]
       /\ \A args \in ArgLists :
              Mismatches(result.parameters, args) = {}
              => LET start == publishStart(registeredEvents, subscriptions,
                                           checkEventAndArgumentsOnPublish,
                                           result.eventName, args)
                 IN  /\ start.err = NoError
                     /\ Deref(start.eventHandlers, result.eventName, subscriptions)
                           = result.pre

\* a step that ends a publish call with ArgumentMismatch
AbortStep == result'.op = "publish" /\ result'.err = "ArgumentMismatch"

\* a step that starts the loop of a publish call of the event of a call
\* that has just ended with ArgumentMismatch
FollowingStep ==
    /\ AbortedPublish
    /\ stack = << >>
    /\ stack' # << >>
    /\ stack'[1].eventName = result.eventName

\* C33: a publish call that ends with ArgumentMismatch calls no handler and
\* leaves the registered events and every handler sequence as they were;
\* a publish call of the same event that follows immediately, with
\* arguments that match, passes the checks and goes through the handlers
\* that were subscribed before the call that failed, from the first.
C33_Theorem ==
    /\ []AbortedPublishLeavesEvent
    /\ [][AbortStep => UNCHANGED <<registeredEvents, subscriptions>>]_vars
    /\ [][FollowingStep
            => /\ UNCHANGED <<registeredEvents, subscriptions>>
               /\ stack'[1].i = 0
               /\ stack'[1].invoked = << >>
               /\ Deref(stack'[1].eventHandlers, result.eventName, subscriptions')
                     = result.pre]_vars

\* publish without the argument the event requires has ended with
\* ArgumentMismatch on an event with three handlers
C33_Witness ==
    /\ AbortedPublish
    /\ result.args = << >>
    /\ Len(result.pre) = 3
    /\ HandlersNow = result.pre
    /\ Len(registeredEvents) = 2

\* the error of the first check that fails when the checks on a new event
\* are made in the order: name, parameter order, duplicate names, description
FirstInOrder(eventName, parameters, description) ==
    IF eventName = "" THEN "InvalidEvent"
    ELSE IF RequiredAfterOptional(parameters) THEN "InvalidParameterOrder"
    ELSE IF SharedName(parameters) THEN "DuplicateParameter"
    ELSE IF typeof(description) # "string" THEN "InvalidEvent"
    ELSE NoError

\* C34 as stated: the construction of an event from well-formed descriptors
\* makes its checks in the order name, parameter order, duplicate parameter
\* names, description, and fails with the error of the first that fails; so
\* a declaration with a required parameter after an optional one and with a
\* name twice fails with InvalidParameterOrder, not DuplicateParameter.
C34_AsStated ==
    (/\ Constructed
     /\ WellFormed(result.args)
     /\ NoInheritedName(result.args)
     /\ RequiredAfterOptional(result.args)
     /\ SharedName(result.args))
    => /\ result.err = "InvalidParameterOrder"
       /\ \A description \in DescriptionInputs :
              PublisherEvent(result.eventName, result.args, description, "this").err
                  = FirstInOrder(result.eventName, result.args, description)

\* C35 as stated: in every state, whatever calls have been made, from
\* outside or by a handler during a publish call, every event name that
\* subscriptions gives a handler sequence for is the name of a registered
\* event.
C35_AsStated ==
    \A eventName \in DOMAIN subscriptions :
        HandlersOf(subscriptions, eventName) # << >>
        => isRegistered(registeredEvents, eventName)

\* what the registry holds for eventName and gives for it: the definition
\* and the handlers of the event getEvent returns (none when the name is not
\* registered), and the handler sequence publish goes through
Kept(events, subs, eventName) ==
    [event |-> IF isRegistered(events, eventName)
               THEN <<EventRead(events, subs, eventName)>> ELSE << >>,
     handlers |-> HandlersOf(subs, eventName)]

\* the names of the events the registry has been called with
NamesUsed == Names \cup ProtoNames

\* a call with eventName leaves every other event as it is
FrameOf(out, eventName) ==
    \A other \in NamesUsed \ {eventName} :
        Kept(out.events, out.subs, other) = Kept(registeredEvents, subscriptions, other)

\* in every state, register, deregister, subscribe and unsubscribe with a
\* name leave the events of the other names as they are
CallsLeaveOtherEvents ==
    \A eventName \in NamesUsed :
        /\ \A parameters \in ParameterLists :
               FrameOf(register(registeredEvents, subscriptions, eventName,
                                parameters, StringValue, "this"), eventName)
        /\ FrameOf(deregister(registeredEvents, subscriptions, eventName), eventName)
        /\ \A handler \in HandlerInputs :
               /\ FrameOf(subscribe(registeredEvents, subscriptions, eventName, handler),
                          eventName)
               /\ FrameOf(unsubscribe(registeredEvents, subscriptions, eventName, handler),
                          eventName)

\* a step of a publish call itself: its start, the call of a handler, the
\* return or the throw of a handler, or its return
PublishStep ==
    \/ result'.op = "publish"
    \/ Len(stack') # Len(stack)
    \/ /\ stack # << >>
       /\ stack' # << >>
       /\ stack'[Len(stack')].pc # Top.pc

\* C36 as stated: register, deregister, subscribe and unsubscribe applied
\* to an event, and the steps of a publish call, leave the definition and
\* the handler sequence of every event of another name as they are; names
\* that differ in the case of a letter only are other names.
C36_AsStated ==
    /\ []CallsLeaveOtherEvents
    /\ [][PublishStep
            => \A other \in NamesUsed :
                   Kept(registeredEvents', subscriptions', other)
                       = Kept(registeredEvents, subscriptions, other)]_vars

\* subscribe(eventName, handler) in the state now, and the
\* unsubscribe(eventName, handler) that follows it
ThenUnsubscribe(eventName, handler) ==
    LET subscribed == subscribe(registeredEvents, subscriptions, eventName, handler)
    IN  [subscribed |-> subscribed,
         unsubscribed |-> unsubscribe(subscribed.events, subscribed.subs,
                                      eventName, handler)]

\* a step from the end of a subscribe call that raised no error to the end
\* of an unsubscribe call with the same event and handler that reports true
SubscribeThenUnsubscribe ==
    /\ stack = << >>
    /\ result.op = "subscribe"
    /\ result.err = NoError
    /\ result'.op = "unsubscribe"
    /\ result'.eventName = result.eventName
    /\ result'.handler = result.handler
    /\ result'.err = NoError
    /\ result'.ret = "true"

\* C37 as stated: for every registered event and every handler sequence it
\* has, with or without the handler in it, subscribe(name, h) and then
\* unsubscribe(name, h) leave the handler sequence of the event what it
\* was before the subscribe, order included.
C37_AsStated ==
    /\ [](\A eventName \in Names, handler \in Handlers :
              LET both == ThenUnsubscribe(eventName, handler)
              IN  both.subscribed.err = NoError
                  => /\ both.unsubscribed.err = NoError
                     /\ HandlersOf(both.unsubscribed.subs, eventName)
                           = HandlersOf(subscriptions, eventName))
    /\ [][SubscribeThenUnsubscribe
            => HandlersOf(subscriptions', result.eventName) = result.pre]_vars

\* every occurrence of handler in seq is at its end
OnlyAtEnd(seq, handler) ==
    \A j \in 1..Len(seq) :
        seq[j] = handler => \A k \in j..Len(seq) : seq[k] = handler

\* C37 amended: when subscribe(name, h) raises no error and the
\* unsubscribe(name, h) that follows reports true, the handler sequence of
\* the event is the one before the subscribe with h added at the end and
\* the first occurrence of h removed: it is the sequence before the
\* subscribe, order included, exactly when h did not occur in it or occurred
\* only at its end; otherwise h has gone from its first place to the end.
C37_Amended ==
    /\ [](\A eventName \in Names, handler \in Handlers :
              LET both == ThenUnsubscribe(eventName, handler)
                  pre == HandlersOf(subscriptions, eventName)
                  post == HandlersOf(both.unsubscribed.subs, eventName)
              IN  (/\ both.subscribed.err = NoError
                   /\ both.unsubscribed.err = NoError
                   /\ both.unsubscribed.ret = "true")
                  => /\ post = RemoveFirst(Append(pre, handler), handler)
                     /\ post = pre <=> OnlyAtEnd(pre, handler))
    /\ [][SubscribeThenUnsubscribe
            => HandlersOf(subscriptions', result.eventName)
                 = RemoveFirst(Append(result.pre, result.handler), result.handler)]_vars

\* unsubscribe has just removed the handler from the sequence of two other
\* handlers it was the last of, as after a subscribe, and the two are left
C37_Witness ==
    /\ result.op = "unsubscribe"
    /\ result.err = NoError
    /\ result.ret = "true"
    /\ Len(result.pre) = 3
    /\ result.pre[3] = result.handler
    /\ result.pre[1] # result.handler
    /\ result.pre[2] # result.handler
    /\ HandlersNow = SubSeq(result.pre, 1, 2)

\* the handlers a publish call of eventName would go through in a registry
\* with the events and subscriptions given
Dispatched(events, subs, eventName) ==
    Deref(SubscriptionsOrNew(subs, eventName), eventName, subs)

\* register(eventName) after the call that gave out, when that call raised
\* no error: the event registered has no handlers
RegisteredAnew(out, eventName) ==
    LET anew == register(out.events, out.subs, eventName, << >>, StringValue, "this")
    IN  out.err = NoError
        => /\ anew.err = NoError
           /\ HandlersOf(anew.subs, eventName) = << >>
           /\ Dispatched(anew.events, anew.subs, eventName) = << >>

\* C38 as stated: after deregister(name), or deregisterAll, of an event
\* that had handlers, register(name) gives an event without handlers: a
\* publish call that follows goes through none of the handlers subscribed
\* before.  So in every state an event just registered has no handlers, and
\* in every state with an event that has handlers, deregister(name) or
\* deregisterAll and then register(name) give an event without handlers.
C38_AsStated ==
    /\ (result.op = "register" /\ result.err = NoError /\ stack = << >>)
       => /\ HandlersNow = << >>
          /\ Dispatched(registeredEvents, subscriptions, result.eventName) = << >>
    /\ \A eventName \in NamesUsed :
           (/\ isRegistered(registeredEvents, eventName)
            /\ HandlersOf(subscriptions, eventName) # << >>)
           => /\ RegisteredAnew(deregister(registeredEvents, subscriptions, eventName),
                                eventName)
              /\ RegisteredAnew(deregisterAll(registeredEvents, subscriptions), eventName)

\* the error the checks of publish raise before any handler is called, from
\* what the call is given and finds: the mode flag, the name, whether it is
\* registered and with what parameters, the handlers, the arguments
StartError(check, eventName, registered, parameters, pre, args) ==
    IF eventName = NoName THEN "MissingEventName"
    ELSE IF ~check THEN NoError
    ELSE IF ~registered THEN "NotRegistered"
    ELSE IF pre # << >> /\ Mismatches(parameters, args) # {} THEN "ArgumentMismatch"
    ELSE NoError

\* a publish call has ended, none of whose handlers has changed the
\* registry: the event published is as it was when the call started; the
\* call has raised the error of its checks and called no handler, or has
\* called the handlers of the event in order, all of them unless one threw;
\* and a publish call of the same event with the same arguments now meets
\* the same checks and the same handlers
PublishRepeats ==
    (result.op = "publish" /\ result.made = << >> /\ stack = << >>)
    => LET expected == StartError(checkEventAndArgumentsOnPublish, result.eventName,
                                  result.registered, result.parameters,
                                  result.pre, result.args)
           start == publishStart(registeredEvents, subscriptions,
                                 checkEventAndArgumentsOnPublish,
                                 result.eventName, result.args)
       IN  /\ Before(result.eventName) = [registered |-> result.registered,
                                          parameters |-> result.parameters,
                                          handlers |-> result.pre]
           /\ expected # NoError => result.err = expected /\ result.invoked = << >>
           /\ expected = NoError => result.err \in {NoError, "HandlerError"}
           /\ result.err = NoError
              => EachOnceInOrder(result.invoked, result.pre, result.args)
           /\ result.err = "HandlerError"
              => /\ result.invoked # << >>
                 /\ IsPrefix(InvokedHandlers(result.invoked), result.pre)
           /\ start.err = expected
           /\ Deref(start.eventHandlers, result.eventName, subscriptions) = result.pre

\* C39: the steps of a publish call itself, in either mode and whether the
\* call raises an error or not, leave the registered events, with their
\* definitions, and every handler sequence as they are; so when no handler
\* changes the registry, a second publish call of the same event with the
\* same arguments meets the same checks and the same handlers in the same
\* order as the first.
C39_Theorem ==
    /\ []PublishRepeats
    /\ [][PublishStep => UNCHANGED <<registeredEvents, subscriptions>>]_vars

\* a publish call in validating mode has called three handlers, not all the
\* same, and the event has them still
C39_Witness ==
    /\ checkEventAndArgumentsOnPublish
    /\ result.op = "publish"
    /\ result.err = NoError
    /\ result.made = << >>
    /\ Len(result.invoked) = 3
    /\ result.pre[1] # result.pre[3]
    /\ HandlersNow = result.pre

====
